---- MODULE Spec2Model ----
(***************************************************************************)
(* Verification model of the fact-extraction pipeline of                   *)
(* faff-usermanagement: JSONContextExtractor (chunking, validation, merge, *)
(* two-tier deduplication, persistence, reprocessing) and the parts of     *)
(* SupabaseManager it drives.                                              *)
(*                                                                         *)
(* Conventions.  Python strings that the code lower-cases and strips are   *)
(* sequences of one-character strings, so that lower() and strip() are     *)
(* computed.  Confidences are hundredths (0.75 is 75).  A Python dict is a *)
(* sequence of [k, v] entries in insertion order.                          *)
(***************************************************************************)
EXTENDS Integers, Sequences, FiniteSets, TLC

VARIABLES
    chunk_size,      \* JSONContextExtractor.chunk_size
    overlap_size,    \* JSONContextExtractor.overlap_size
    messages,        \* the flattened message sequence handed to chunk_messages
    chunks,          \* the list chunk_messages returned
    chunk_outcome,   \* "none" before the call, then "returned" or "error"
    raw_data,        \* the parsed extraction response handed to _validate_extractions
    validated_data,  \* the dict _validate_extractions returned
    fuzz,            \* fuzz.ratio as a table on unordered pairs of normalised values
    extracted_data,  \* the per-layer candidates handed to the deduplicator
    deduplicated_data, \* the deduplicated per-layer candidates
    dedup_again,     \* Tier B applied to deduplicated_data
    llm_response,    \* the extraction capability's answer to the deduplication call
    tier,            \* which tier produced deduplicated_data: "A", "B" or "none"
    phase,           \* position of a function-level run: "input", then "done"
    db_enabled,      \* JSONContextExtractor.db_enabled (SupabaseManager.is_connected())
    marker,          \* the user has a row in processed_files
    store,           \* the rows of memory_nodes, in insertion order; a row's id is its index
    pc,              \* position of the process_json call in progress, or "idle"
    cur,             \* the operation in progress or last completed: [op, force]
    prev,            \* the operation completed before cur
    runs,            \* number of process_json calls started
    reprocs,         \* number of reprocessing calls made
    reviews,         \* number of approve and reject calls made
    chunk_idx,       \* index of the next chunk to extract
    all_extracted_data, \* the non-empty validated chunk results, in chunk order
    storage_result,  \* what store_in_db returned: [newly_stored_nodes, stats]
    returned,        \* what the last process_json call returned
    run_inserts,     \* the rows inserted by the operation in progress
    merged_data,     \* what merge_extracted_data returned
    input_json,      \* the transcript file of the user, as loaded
    excluded_message_ids, \* the evidence message ids handed to reprocess_rejected_fact
    filtered_messages, \* the messages reprocess_rejected_fact keeps for re-chunking
    batch_entry,     \* the batch entry point running: "cli", "extractor_main" or "endpoint"
    batch_files,     \* the condition of each file of the batch, in list order
    batch_idx,       \* index of the next file of the batch
    batch_done,      \* indices of the files on which the batch loop made its iteration
    batch_status,    \* "running", "completed", or "aborted" when an error left the loop
    reprocess_data,  \* extracted_data of reprocess_rejected_fact after its deduplication
    requests         \* per concurrent process_json request: [pc, idx], its position

chunkVars == <<chunk_size, overlap_size, messages, chunks, chunk_outcome>>
valVars == <<raw_data, validated_data>>
dedupVars == <<extracted_data, deduplicated_data, dedup_again, llm_response, tier>>

pipeVars == <<db_enabled, marker, store, pc, cur, prev, runs, reprocs, reviews, chunk_idx,
              all_extracted_data, storage_result, returned, run_inserts>>

auxVars == <<merged_data, input_json, excluded_message_ids, filtered_messages,
             batch_entry, batch_files, batch_idx, batch_done, batch_status, reprocess_data, requests>>

vars == <<chunkVars, valVars, fuzz, dedupVars, phase, pipeVars, auxVars>>

----------------------------------------------------------------------------
(* Bounds *)
MaxMsgs == 6
MaxChunkSize == 3
MaxRawNodes == 2      \* nodes per layer of a raw extraction response
MaxDedupNodes == 3    \* candidates in the first layer of a deduplication input
MaxTierAFacts == 2    \* facts per layer of a Tier A response
MaxMergeChunks == 2   \* chunk results handed to merge_extracted_data
MaxMergeNodes == 2    \* candidates in a chunk result
MaxConvs == 2         \* conversations in a transcript
MaxQueries == 2       \* user queries in a conversation
MaxReplies == 1       \* team replies in a conversation
MaxFiles == 3         \* files in a batch
MaxRequests == 3      \* concurrent process_json requests for one user
MaxRows == 2          \* rows of memory_nodes in the review specification
MaxReviewCalls == 3   \* approve, reject and mark calls in the review specification

----------------------------------------------------------------------------
(* Small helpers *)
Min(a, b) == IF a < b THEN a ELSE b

Range(s) == {s[i] : i \in 1..Len(s)}

\* Python slice s[lo:hi] with 0-based lo and exclusive hi, clipped to the list
Slice(s, lo, hi) == SubSeq(s, lo + 1, Min(hi, Len(s)))

----------------------------------------------------------------------------
(* Strings: lower() and strip() *)

UpperChars == <<"A","B","C","D","E","F","G","H","I","J","K","L","M",
                "N","O","P","Q","R","S","T","U","V","W","X","Y","Z">>
LowerChars == <<"a","b","c","d","e","f","g","h","i","j","k","l","m",
                "n","o","p","q","r","s","t","u","v","w","x","y","z">>

LowerChar(c) ==
    IF \E i \in 1..Len(UpperChars) : UpperChars[i] = c
    THEN LowerChars[CHOOSE i \in 1..Len(UpperChars) : UpperChars[i] = c]
    ELSE c

\* str.lower()
Lower(s) == [i \in 1..Len(s) |-> LowerChar(s[i])]

IsSpace(c) == c \in {" ", "\t", "\n"}

RECURSIVE LStrip(_)
LStrip(s) == IF s # <<>> /\ IsSpace(Head(s)) THEN LStrip(Tail(s)) ELSE s

RECURSIVE RStrip(_)
RStrip(s) == IF s # <<>> /\ IsSpace(s[Len(s)]) THEN RStrip(SubSeq(s, 1, Len(s) - 1)) ELSE s

\* str.strip()
Strip(s) == RStrip(LStrip(s))

\* the normalisation the code applies to values and snippets: .lower().strip()
Normalize(s) == Strip(Lower(s))

----------------------------------------------------------------------------
(* Python dicts as insertion-ordered sequences of [k, v] entries *)

DictKeys(d) == {d[i].k : i \in 1..Len(d)}

DictHas(d, key) == key \in DictKeys(d)

DictGet(d, key) == d[CHOOSE i \in 1..Len(d) : d[i].k = key].v

\* d.get(key, default)
DictGetOr(d, key, default) == IF DictHas(d, key) THEN DictGet(d, key) ELSE default

\* d[key] = val: replaces the value of an existing key in place, else appends
DictSet(d, key, val) ==
    IF DictHas(d, key)
    THEN [i \in 1..Len(d) |-> IF d[i].k = key THEN [k |-> key, v |-> val] ELSE d[i]]
    ELSE Append(d, [k |-> key, v |-> val])

RECURSIVE SumLens(_)
\* sum(len(nodes) for nodes in d.values())
SumLens(d) == IF d = <<>> THEN 0 ELSE Len(Head(d).v) + SumLens(Tail(d))

\* all nodes of a dict, layer by layer
RECURSIVE AllNodes(_)
AllNodes(d) == IF d = <<>> THEN <<>> ELSE Head(d).v \o AllNodes(Tail(d))

----------------------------------------------------------------------------
(* _validate_extractions *)

CONFIDENCE_THRESHOLD == 75

invalid_relationship_values ==
    { <<"w","i","f","e">>,
      <<"h","u","s","b","a","n","d">>,
      <<"n","e","p","h","e","w">>,
      <<"n","i","e","c","e">>,
      <<"s","o","n">>,
      <<"d","a","u","g","h","t","e","r">>,
      <<"b","r","o","t","h","e","r">>,
      <<"s","i","s","t","e","r">>,
      <<"m","o","t","h","e","r">>,
      <<"f","a","t","h","e","r">>,
      <<"a","u","n","t">>,
      <<"u","n","c","l","e">>,
      <<"c","o","u","s","i","n">>,
      <<"f","r","i","e","n","d">>,
      <<"c","o","l","l","e","a","g","u","e">> }

invalid_evidence_patterns ==
    { <<"t","h","a","n","k","s"," ","g","u","y","s">>,
      <<"t","h","a","n","k"," ","y","o","u">>,
      <<"t","h","a","n","k","s">>,
      <<"o","k">>,
      <<"o","k","a","y">>,
      <<"y","e","s">>,
      <<"n","o">>,
      <<"s","u","r","e">>,
      <<"g","r","e","a","t">>,
      <<"p","e","r","f","e","c","t">>,
      <<"s","o","u","n","d","s"," ","g","o","o","d">>,
      <<"a","l","r","i","g","h","t">> }

RelationTypes == {"relationship", "family_member", "spouse"}

TravelTypes == {"travel_plan", "flight_number", "travel_date"}

\* the evidence loop: some snippet, lower-cased and stripped, is contentless
HasInvalidEvidence(node) ==
    \E i \in 1..Len(node.evidence) :
        Normalize(node.evidence[i].message_snippet) \in invalid_evidence_patterns

\* detail.get('value', ''): a candidate may come without a value
DetailValue(node) == IF "value" \in DOMAIN node.detail THEN node.detail.value ELSE <<>>

\* the relationship check
IsBareRelation(fact_type, value) ==
    fact_type \in RelationTypes /\ Normalize(value) \in invalid_relationship_values

\* the Layer1 travel test that moves a node to Layer4
IsLayer1Travel(layer, node) == layer = "Layer1" /\ node.detail.type \in TravelTypes

\* skip_node at the end of the loop body of a node that is not moved
SkipNode(node) ==
    \/ IsBareRelation(node.detail.type, DetailValue(node))
    \/ HasInvalidEvidence(node)
    \/ node.confidence < CONFIDENCE_THRESHOLD

RECURSIVE ValidateNodes(_, _, _, _)
\* the inner loop over one layer's nodes: [vdata, vnodes]
ValidateNodes(layer, nodes, vdata, vnodes) ==
    IF nodes = <<>> THEN [vdata |-> vdata, vnodes |-> vnodes]
    ELSE LET node == Head(nodes)
         IN  IF IsLayer1Travel(layer, node)
             THEN ValidateNodes(layer, Tail(nodes),
                      DictSet(vdata, "Layer4", Append(DictGetOr(vdata, "Layer4", <<>>), node)),
                      vnodes)
             ELSE IF SkipNode(node)
             THEN ValidateNodes(layer, Tail(nodes), vdata, vnodes)
             ELSE ValidateNodes(layer, Tail(nodes), vdata, Append(vnodes, node))

RECURSIVE ValidateLayers(_, _)
\* the outer loop over raw_data.items()
ValidateLayers(raw, vdata) ==
    IF raw = <<>> THEN vdata
    ELSE LET r == ValidateNodes(Head(raw).k, Head(raw).v, vdata, <<>>)
         IN  ValidateLayers(Tail(raw),
                 IF r.vnodes # <<>> THEN DictSet(r.vdata, Head(raw).k, r.vnodes) ELSE r.vdata)

\* _validate_extractions(raw_data)
ValidateExtractions(raw) == ValidateLayers(raw, <<>>)

----------------------------------------------------------------------------
(* The values, snippets and candidates the inputs are drawn from *)

V_AI202   == <<"A","I","2","0","2">>
V_Wife    == <<" ","W","i","f","e">>
V_Sarah   == <<"S","a","r","a","h">>
V_Tea     == <<"t","e","a">>
V_Phone1  == <<"9","8","7","6","5">>
V_Phone2  == <<"0","2","2","1","2">>

\* message ids are sequences of strings, so that the synthetic ids the
\* flattening builds from a prefix and a conversation index are ids too
M1 == <<"m1">>
M2 == <<"m2">>
M3 == <<"m3">>

S_Claim   == <<"M","y"," ","n","u","m","b","e","r"," ","i","s">>
S_Ok      == <<"O","K"," ">>

Ev(mid, snippet) == [message_id |-> mid, message_snippet |-> snippet]

Node(type, value, conf, evidence) ==
    [detail |-> [type |-> type, value |-> value], confidence |-> conf, evidence |-> evidence]

N_flight      == Node("flight_number", V_AI202, 90, <<Ev(M1, S_Claim)>>)
N_travel_bad  == Node("travel_plan", V_AI202, 50, <<Ev(M2, S_Ok)>>)
N_food        == Node("food_preference", V_Tea, 90, <<Ev(M3, S_Claim)>>)
N_food_ok     == Node("food_preference", V_Tea, 90, <<Ev(M3, S_Claim), Ev(M2, S_Ok)>>)
N_food_low    == Node("food_preference", V_Tea, 70, <<Ev(M3, S_Claim)>>)
N_spouse_bare == Node("spouse", V_Wife, 90, <<Ev(M1, S_Claim)>>)
N_spouse      == Node("spouse", V_Sarah, 90, <<Ev(M1, S_Claim)>>)
N_phone_noev  == Node("phone_number", V_Phone1, 95, <<>>)
\* a candidate whose detail has a type and no value
N_novalue     == [detail |-> [type |-> "name"], confidence |-> 90, evidence |-> <<Ev(M1, S_Claim)>>]

\* values of the deduplication inputs: DV_A normalises to DV_a
DV_a == <<"a","1">>
DV_A == <<"A","1"," ">>
DV_b == <<"b","1">>
DV_c == <<"c","1">>

D_addr_a  == Node("address", DV_a, 80, <<Ev(M1, S_Claim)>>)
D_addr_c  == Node("address", DV_c, 80, <<Ev(M2, S_Claim)>>)
D_addr_b  == Node("address", DV_b, 95, <<Ev(M3, S_Claim)>>)
D_name_A  == Node("name", DV_A, 95, <<Ev(M1, S_Claim)>>)
D_name_b  == Node("name", DV_b, 80, <<Ev(M2, S_Claim)>>)
D_phone_a == Node("phone_number", DV_a, 95, <<Ev(M1, S_Claim)>>)
D_phone_b == Node("phone_number", DV_b, 95, <<Ev(M2, S_Claim)>>)
D_phone_c == Node("phone_number", DV_c, 80, <<Ev(M3, S_Claim)>>)
D_email_a == Node("email", DV_a, 80, <<Ev(M1, S_Claim)>>)
D_email_A == Node("email", DV_A, 95, <<Ev(M2, S_Claim)>>)
D_email_b == Node("email", DV_b, 95, <<Ev(M3, S_Claim)>>)

\* the answers fuzz.ratio gives on distinct values: below, at and above the threshold
FuzzRatios == {80, 85, 90}

\* the tables fuzz.ratio can be on the normalised forms of the values in V
FuzzTables(V) ==
    LET nv == {Normalize(v) : v \in V}
    IN  [{{a, b} : a, b \in nv} \ {{a} : a \in nv} -> FuzzRatios]

\* sequences over S of length at most n
SeqsUpTo(S, n) == UNION {[1..k -> S] : k \in 0..n}

\* dicts whose keys are distinct members of K, in any order, with values in V
DictsOver(K, V, n) ==
    {d \in SeqsUpTo([k : K, v : V], n) :
        \A i, j \in 1..Len(d) : i # j => d[i].k # d[j].k}

\* facts of a Tier A response
Ev2(mid, snippet) == [message_id |-> mid, snippet |-> snippet]

TF_phone    == [type |-> "phone_number", value |-> V_Phone1, confidence |-> 95,
                evidence |-> <<Ev2(M1, S_Claim)>>]
TF_noevkey  == [type |-> "phone_number", value |-> V_Phone2]
TF_notype   == [value |-> V_Phone1, confidence |-> 95, evidence |-> <<Ev2(M1, S_Claim)>>]
TF_number   == [junk |-> "number"]
TF_junkev   == [type |-> "phone_number", value |-> V_Phone1, confidence |-> 95,
                evidence |-> <<[junk |-> "string"]>>]
TF_bare     == [type |-> "spouse", value |-> V_Wife, confidence |-> 90,
                evidence |-> <<Ev2(M1, S_Claim)>>]
TF_emptyev  == [type |-> "phone_number", value |-> V_Phone1, confidence |-> 95, evidence |-> <<>>]
TF_lowconf  == [type |-> "phone_number", value |-> V_Phone2, confidence |-> 50,
                evidence |-> <<Ev2(M2, S_Claim)>>]

N_phone  == Node("phone_number", V_Phone1, 95, <<Ev(M1, S_Claim)>>)
N_phone2 == Node("phone_number", V_Phone2, 80, <<Ev(M2, S_Claim)>>)

\* the responses to the deduplication call over layer names K and facts F,
\* with at most n facts in a layer and at most two layers
DedupResponses(K, F, n) ==
    LET vals == [k : K, v : SeqsUpTo(F, n)] \cup [k : K, nonlist : {"null", "string"}]
        objs == {d \in SeqsUpTo(vals, 2) : \A i, j \in 1..Len(d) : i # j => d[i].k # d[j].k}
    IN  {[kind |-> "api_error"], [kind |-> "no_content"]}
        \cup [kind : {"json_other"}, truthy : BOOLEAN]
        \cup [kind : {"unparsable"}, rescued : {r \in SeqsUpTo(K, 2) : Len(r) = 2 => r[1] # r[2]}]
        \cup [kind : {"json"}, val : objs]

----------------------------------------------------------------------------
(* Deterministic deduplication: _deduplicate_facts, Tier B, merge *)

FUZZ_THRESHOLD == 85

\* fuzz.ratio on two normalised values: 100 on equal strings, else the
\* library's answer for the unordered pair
Ratio(a, b) == IF a = b THEN 100 ELSE fuzz[{a, b}]

RemoveAt(s, j) == SubSeq(s, 1, j - 1) \o SubSeq(s, j + 1, Len(s))

SetMin(S) == CHOOSE x \in S : \A y \in S : x <= y

\* the duplicate test of _deduplicate_facts if it did not compare the types
SameTypeSimilarAnyType(fact, existing) ==
    Ratio(Normalize(fact.detail.value), Normalize(existing.detail.value)) > FUZZ_THRESHOLD

\* the duplicate test of _deduplicate_facts
SameTypeSimilar(fact, existing) ==
    /\ fact.detail.type = existing.detail.type
    /\ Ratio(Normalize(fact.detail.value), Normalize(existing.detail.value)) > FUZZ_THRESHOLD

\* the duplicate test of _deduplicate_contact_info for emails
EmailEqual(fact, existing) ==
    Normalize(fact.detail.value) = Normalize(existing.detail.value)

\* the duplicate test of _deduplicate_contact_info for addresses
AddressSimilar(fact, existing) ==
    \/ Normalize(fact.detail.value) = Normalize(existing.detail.value)
    \/ Ratio(Normalize(fact.detail.value), Normalize(existing.detail.value)) > FUZZ_THRESHOLD

\* the duplicate test of the greedy pass named rule
IsDup(rule, fact, existing) ==
    CASE rule = "facts"   -> SameTypeSimilar(fact, existing)
      [] rule = "email"   -> EmailEqual(fact, existing)
      [] rule = "address" -> AddressSimilar(fact, existing)

\* one iteration of the outer loop of a greedy pass: the first kept fact
\* that the rule matches decides; except for emails, a strictly more
\* confident newcomer replaces it and goes to the end of the list
GreedyStep(deduped, fact, rule) ==
    LET hits == {j \in 1..Len(deduped) : IsDup(rule, fact, deduped[j])}
    IN  IF hits = {} THEN Append(deduped, fact)
        ELSE LET j == SetMin(hits)
             IN  IF rule # "email" /\ fact.confidence > deduped[j].confidence
                 THEN Append(RemoveAt(deduped, j), fact)
                 ELSE deduped

RECURSIVE GreedyPass(_, _, _)
GreedyPass(facts, deduped, rule) ==
    IF facts = <<>> THEN deduped
    ELSE GreedyPass(Tail(facts), GreedyStep(deduped, Head(facts), rule), rule)

\* _deduplicate_facts(facts)
DeduplicateFacts(facts) == GreedyPass(facts, <<>>, "facts")

\* _deduplicate_contact_info(contact_facts, fact_type), called for address and email
DeduplicateContactInfo(facts, fact_type) ==
    IF fact_type = "email" THEN GreedyPass(facts, <<>>, "email")
    ELSE GreedyPass(facts, <<>>, "address")

\* _deduplicate_phone_numbers: a stable descending sort by confidence, then
\* the head: the first-seen fact of maximal confidence
DeduplicatePhoneNumbers(facts) ==
    IF facts = <<>> THEN <<>>
    ELSE LET best == {i \in 1..Len(facts) :
                         \A j \in 1..Len(facts) : facts[j].confidence <= facts[i].confidence}
         IN  <<facts[SetMin(best)]>>

RECURSIVE TypesInOrder(_, _)
\* keys of facts_by_type in insertion order
TypesInOrder(facts, seen) ==
    IF facts = <<>> THEN seen
    ELSE TypesInOrder(Tail(facts),
             IF Head(facts).detail.type \in Range(seen) THEN seen
             ELSE Append(seen, Head(facts).detail.type))

OfType(facts, t) == SelectSeq(facts, LAMBDA f : f.detail.type = t)

\* the type-specific rule of _deduplicate_facts_enhanced
DeduplicateByType(type_facts, fact_type) ==
    IF fact_type = "phone_number" THEN DeduplicatePhoneNumbers(type_facts)
    ELSE IF fact_type \in {"address", "email"} THEN DeduplicateContactInfo(type_facts, fact_type)
    ELSE DeduplicateFacts(type_facts)

RECURSIVE ConcatByType(_, _)
ConcatByType(facts, types) ==
    IF types = <<>> THEN <<>>
    ELSE DeduplicateByType(OfType(facts, Head(types)), Head(types))
             \o ConcatByType(facts, Tail(types))

\* _deduplicate_facts_enhanced(facts, layer)
DeduplicateFactsEnhanced(facts) == ConcatByType(facts, TypesInOrder(facts, <<>>))

\* _apply_fallback_deduplication(extracted_data, user_id)
ApplyFallbackDeduplication(data) ==
    [i \in 1..Len(data) |-> [k |-> data[i].k, v |-> DeduplicateFactsEnhanced(data[i].v)]]

LayerKeys == <<"Layer1", "Layer2", "Layer3", "Layer4">>

RECURSIVE ExtendLayer(_, _)
\* merged[layer].extend(extracted[layer]) over all chunk results, in order
ExtendLayer(all_extracted, layer) ==
    IF all_extracted = <<>> THEN <<>>
    ELSE DictGetOr(Head(all_extracted), layer, <<>>) \o ExtendLayer(Tail(all_extracted), layer)

\* fact["detail"]["value"] in _deduplicate_facts raises KeyError on a merged
\* candidate without a value; merge_extracted_data does not catch it
MergeRaises(all_extracted) ==
    \E i \in 1..Len(LayerKeys) :
        \E fact \in Range(ExtendLayer(all_extracted, LayerKeys[i])) :
            "value" \notin DOMAIN fact.detail

\* merge_extracted_data(all_extracted)
MergeExtractedData(all_extracted) ==
    [i \in 1..Len(LayerKeys) |->
        [k |-> LayerKeys[i], v |-> DeduplicateFacts(ExtendLayer(all_extracted, LayerKeys[i]))]]

----------------------------------------------------------------------------
(* Tier A: call_llm_for_deduplication and deduplicate_with_llm *)

(* A response of the extraction capability to the deduplication call is     *)
(*   [kind |-> "api_error"]              the call raised                    *)
(*   [kind |-> "no_content"]             empty response                     *)
(*   [kind |-> "unparsable", rescued |-> layers]   json.loads failed; the   *)
(*        layer regex found the layer names in rescued (possibly none)      *)
(*   [kind |-> "json_other", truthy |-> b]   valid JSON that is no object   *)
(*   [kind |-> "json", val |-> entries]  a JSON object                      *)
(* An entry of a JSON object is [k, v] with v a list of facts, or           *)
(* [k, nonlist] with nonlist "null" (no len) or "string" (len, no facts).   *)
(* A fact is a record with any of the keys type, value, confidence,         *)
(* evidence (a list) or evidence_nonlist; or [junk |-> "number"] or         *)
(* [junk |-> "string"].  An evidence entry is a record with any of the keys *)
(* message_id, snippet, message_snippet, or [junk |-> "string"].            *)

EmptyParsed == [isdict |-> TRUE, truthy |-> FALSE, entries |-> <<>>]

\* call_llm_for_deduplication: what it returns for a response
CallLlmForDeduplication(resp) ==
    CASE resp.kind = "api_error"  -> EmptyParsed
      [] resp.kind = "no_content" -> EmptyParsed
      [] resp.kind = "unparsable" ->
            IF resp.rescued # <<>>
            THEN [isdict |-> TRUE, truthy |-> TRUE,
                  entries |-> [i \in 1..Len(resp.rescued) |-> [k |-> resp.rescued[i], v |-> <<>>]]]
            ELSE EmptyParsed
      [] resp.kind = "json_other" -> [isdict |-> FALSE, truthy |-> resp.truthy, entries |-> <<>>]
      [] resp.kind = "json" -> [isdict |-> TRUE, truthy |-> resp.val # <<>>, entries |-> resp.val]

IsList(entry) == "v" \in DOMAIN entry

\* len(nodes) raises for some value of the parsed object
LenRaises(entries) == \E i \in 1..Len(entries) : ~IsList(entries[i]) /\ entries[i].nonlist = "null"

RECURSIVE AfterCount(_)
\* sum(len(nodes) for nodes in deduplicated_data.values())
AfterCount(entries) ==
    IF entries = <<>> THEN 0
    ELSE (IF IsList(Head(entries)) THEN Len(Head(entries).v) ELSE 1) + AfterCount(Tail(entries))

IsJunk(x) == "junk" \in DOMAIN x

\* the conversion of one fact raises: a number has no "in", a non-mapping
\* evidence entry has no get
FactRaises(fact) ==
    \/ IsJunk(fact) /\ fact.junk = "number"
    \/ /\ ~IsJunk(fact)
       /\ {"type", "value", "evidence"} \subseteq DOMAIN fact
       /\ \E i \in 1..Len(fact.evidence) : IsJunk(fact.evidence[i])

\* a fact the conversion skips as malformed
FactSkipped(fact) == IsJunk(fact) \/ ~({"type", "value"} \subseteq DOMAIN fact)

\* one evidence entry rebuilt: message_id and snippet, with the defaults of get
ConvertEvidence(ev) ==
    [message_id |-> IF "message_id" \in DOMAIN ev THEN ev.message_id ELSE <<"unknown">>,
     snippet    |-> IF "snippet" \in DOMAIN ev THEN ev.snippet
                    ELSE IF "message_snippet" \in DOMAIN ev THEN ev.message_snippet
                    ELSE <<>>]

PlaceholderSnippet == <<"E","v","i","d","e","n","c","e"," ","m","i","s","s","i","n","g">>

\* the evidence list of a rebuilt node
RebuildEvidence(fact) ==
    IF "evidence" \in DOMAIN fact
    THEN [i \in 1..Len(fact.evidence) |-> ConvertEvidence(fact.evidence[i])]
    ELSE <<[message_id |-> <<"unknown">>, snippet |-> PlaceholderSnippet]>>

\* the node rebuilt from one well-formed fact
ConvertFact(fact) ==
    [detail |-> [type |-> fact.type, value |-> fact.value],
     confidence |-> IF "confidence" \in DOMAIN fact THEN fact.confidence ELSE 80,
     evidence |-> RebuildEvidence(fact)]

RECURSIVE ConvertFacts(_)
ConvertFacts(facts) ==
    IF facts = <<>> THEN <<>>
    ELSE IF FactSkipped(Head(facts)) THEN ConvertFacts(Tail(facts))
    ELSE <<ConvertFact(Head(facts))>> \o ConvertFacts(Tail(facts))

\* the conversion loop raises somewhere
ConvertRaises(entries) ==
    \E i \in 1..Len(entries) :
        IsList(entries[i]) /\ \E j \in 1..Len(entries[i].v) : FactRaises(entries[i].v[j])

\* the conversion loop: result[layer] for every key of the parsed object
ConvertEntries(entries) ==
    [i \in 1..Len(entries) |->
        [k |-> entries[i].k,
         v |-> IF IsList(entries[i]) THEN ConvertFacts(entries[i].v) ELSE <<>>]]

\* the guard of the mutant: an exception in the checks or the conversion is
\* not caught into the fallback
TierAExceptionNever(parsed) == FALSE

\* the except clause of deduplicate_with_llm fires: keys() of a non-object,
\* len() of a value without length, or a raising fact
TierAException(parsed) ==
    \/ ~parsed.isdict
    \/ LenRaises(parsed.entries)
    \/ ConvertRaises(parsed.entries)

\* deduplicate_with_llm(extracted_data, user_id) for a given response:
\* [tier, data]; tier is "none" when the input dict is empty
DeduplicateWithLlm(data, resp) ==
    LET parsed == CallLlmForDeduplication(resp)
        tierB  == [tier |-> "B", data |-> ApplyFallbackDeduplication(data)]
    IN  IF data = <<>> THEN [tier |-> "none", data |-> <<>>]
        ELSE IF ~parsed.truthy THEN tierB
        ELSE IF TierAException(parsed) THEN tierB
        ELSE IF DictKeys(data) \ DictKeys(parsed.entries) # {} THEN tierB
        ELSE IF AfterCount(parsed.entries) = 0 /\ SumLens(data) > 0 THEN tierB
        ELSE [tier |-> "A", data |-> ConvertEntries(parsed.entries)]

----------------------------------------------------------------------------
(* chunk_messages *)

\* A message of the flattened sequence; i is its position in the transcript
Message(i) == [id |-> i, sender |-> IF i % 2 = 1 THEN "User" ELSE "Team"]

\* step used by the mutant: the overlap is forgotten
StepNoOverlap(size, overlap) == size

\* range() step of the chunk loop
ChunkStep(size, overlap) == size - overlap

RECURSIVE ChunkLoop(_, _, _, _, _)
\* the body of the for loop at start index i, with the chunks built so far
ChunkLoop(msgs, size, step, i, acc) ==
    LET chunk == Slice(msgs, i, i + size)
        acc2  == IF chunk # <<>> THEN Append(acc, chunk) ELSE acc
    IN  IF i + size >= Len(msgs) THEN acc2
        ELSE IF i + step < Len(msgs) THEN ChunkLoop(msgs, size, step, i + step, acc2)
        ELSE acc2

\* chunk_messages(messages): [outcome, chunks].  range(0, n, 0) raises
\* ValueError; range(0, n, step) with step < 0 is empty.
ChunkMessages(msgs, size, overlap) ==
    LET step == ChunkStep(size, overlap)
    IN  IF msgs = <<>> THEN [outcome |-> "returned", chunks |-> <<>>]
        ELSE IF step = 0 THEN [outcome |-> "error", chunks |-> <<>>]
        ELSE IF step < 0 THEN [outcome |-> "returned", chunks |-> <<>>]
        ELSE [outcome |-> "returned", chunks |-> ChunkLoop(msgs, size, step, 0, <<>>)]

----------------------------------------------------------------------------
(* Flattening of the transcript and the extraction call *)

\* str(conv_idx) for the conversation indices of the inputs
IdxStr(i) == <<"0", "1", "2", "3">>[i + 1]

HasMessageId(entry) == "message_id" \in DOMAIN entry

\* the flattening of one entry if the synthetic id left out the conversation index
FlatMessageNoIndex(entry, sender, tag, conv_idx) ==
    [id |-> IF HasMessageId(entry) THEN entry.message_id ELSE <<tag>>,
     sender |-> sender,
     conversation_id |-> conv_idx,
     message |-> entry.message]

\* one entry of user_queries or team_replies as process_json flattens it
FlatMessage(entry, sender, tag, conv_idx) ==
    [id |-> IF HasMessageId(entry) THEN entry.message_id ELSE <<tag, IdxStr(conv_idx)>>,
     sender |-> sender,
     conversation_id |-> conv_idx,
     message |-> entry.message]

RECURSIVE FlattenFrom(_, _)
\* the flattening loop of process_json from conversation index conv_idx on
FlattenFrom(input, conv_idx) ==
    IF conv_idx >= Len(input) THEN <<>>
    ELSE LET conv == input[conv_idx + 1]
         IN  [i \in 1..Len(conv.user_queries) |->
                 FlatMessage(conv.user_queries[i], "User", "unknown_user_", conv_idx)]
             \o [i \in 1..Len(conv.team_replies) |->
                 FlatMessage(conv.team_replies[i], "Team", "unknown_team_", conv_idx)]
             \o FlattenFrom(input, conv_idx + 1)

\* all_messages of process_json
Flatten(input) == FlattenFrom(input, 0)

\* one entry as reprocess_rejected_fact flattens it: no conversation index
ReprocessMessage(entry, sender, tag) ==
    [id |-> IF HasMessageId(entry) THEN entry.message_id ELSE <<tag>>,
     sender |-> sender,
     message |-> entry.message]

RECURSIVE FlattenForReprocess(_)
\* all_messages of reprocess_rejected_fact
FlattenForReprocess(input) ==
    IF input = <<>> THEN <<>>
    ELSE LET conv == Head(input)
         IN  [i \in 1..Len(conv.user_queries) |->
                 ReprocessMessage(conv.user_queries[i], "User", "unknown_user")]
             \o [i \in 1..Len(conv.team_replies) |->
                 ReprocessMessage(conv.team_replies[i], "Team", "unknown_team")]
             \o FlattenForReprocess(Tail(input))

(* A response of the extraction capability to an extraction call is         *)
(*   [kind |-> "api_error"]     the call raised (or timed out)              *)
(*   [kind |-> "not_json"]      json.loads failed                           *)
(*   [kind |-> "bad_shape"]     valid JSON on which the validation raises   *)
(*   [kind |-> "json", val |-> raw_data]   a JSON object of layer lists     *)

\* call_llm_for_extraction: the validated dict, or {} on any failure
CallLlmForExtraction(resp) ==
    IF resp.kind = "json" THEN ValidateExtractions(resp.val) ELSE <<>>

----------------------------------------------------------------------------
(* Persistence: store_memory_node, store_in_db, store_reprocessed_nodes *)

LayerNumbers == [Layer1 |-> 1, Layer2 |-> 2, Layer3 |-> 3, Layer4 |-> 4, Layer5 |-> 5]

\* int(layer.replace("Layer", "")) raises ValueError on any other key
HasLayerNumber(layer) == layer \in DOMAIN LayerNumbers

\* the row store_memory_node inserts
MemoryNode(layer, node, extraction_method, parent_update_id) ==
    [layer |-> LayerNumbers[layer],
     fact_type |-> node.detail.type,
     content |-> node.detail.value,
     confidence |-> node.confidence,
     status |-> "pending",
     needs_reprocess |-> FALSE,
     evidence |-> node.evidence,
     extraction_method |-> extraction_method,
     parent_update_id |-> parent_update_id]

\* {layer: nodes for layer, nodes in d.items() if nodes}
NonEmptyLayers(d) == SelectSeq(d, LAMBDA e : e.v # <<>>)

RECURSIVE StoreItems(_)
\* the (layer, node) pairs the store loops visit, in order, up to the first
\* layer key that has no number
StoreItems(d) ==
    IF d = <<>> THEN <<>>
    ELSE IF ~HasLayerNumber(Head(d).k) THEN <<>>
    ELSE [i \in 1..Len(Head(d).v) |-> [layer |-> Head(d).k, node |-> Head(d).v[i]]]
         \o StoreItems(Tail(d))

RECURSIVE VisitedLayers(_)
VisitedLayers(d) ==
    IF d = <<>> THEN <<>>
    ELSE IF ~HasLayerNumber(Head(d).k) THEN <<>>
    ELSE <<Head(d).k>> \o VisitedLayers(Tail(d))

StoreRaises(d) == \E i \in 1..Len(d) : ~HasLayerNumber(d[i].k)

\* the confidence gate of store_in_db
BelowThreshold(node) == node.confidence < CONFIDENCE_THRESHOLD

\* what happens to item i of store_in_db when the inserts in fails fail
ItemOutcome(items, i, fails) ==
    IF BelowThreshold(items[i].node) THEN "low_confidence"
    ELSE IF i \in fails THEN "failed"
    ELSE "stored"

RECURSIVE PickIdx(_, _, _)
\* the subsequence of items at the indices in keep, from index i on
PickIdx(items, keep, i) ==
    IF i > Len(items) THEN <<>>
    ELSE (IF i \in keep THEN <<items[i]>> ELSE <<>>) \o PickIdx(items, keep, i + 1)

\* store_in_db with the database enabled, when the inserts of the items in
\* fails return no id: [rows, result]
StoreInDbEnabled(d, fails) ==
    LET items  == StoreItems(d)
        stored == {i \in 1..Len(items) : ItemOutcome(items, i, fails) = "stored"}
        failed == {i \in 1..Len(items) : ItemOutcome(items, i, fails) = "failed"}
        low    == {i \in 1..Len(items) : ItemOutcome(items, i, fails) = "low_confidence"}
        kept   == PickIdx(items, stored, 1)
        layers == VisitedLayers(d)
        newly  == [l \in 1..Len(layers) |->
                      [k |-> layers[l],
                       v |-> LET mine == SelectSeq(kept, LAMBDA it : it.layer = layers[l])
                             IN  [j \in 1..Len(mine) |-> mine[j].node]]]
    IN  [rows |-> [j \in 1..Len(kept) |-> MemoryNode(kept[j].layer, kept[j].node, "initial", 0)],
         result |->
            IF StoreRaises(d)
            THEN [newly_stored_nodes |-> NonEmptyLayers(d),
                  stats |-> [stored |-> 0, duplicate |-> 0, low_confidence_rejected |-> 0]]
            ELSE [newly_stored_nodes |-> NonEmptyLayers(newly),
                  stats |-> [stored |-> Cardinality(stored), duplicate |-> Cardinality(failed),
                             low_confidence_rejected |-> Cardinality(low)]]]

\* store_in_db with the database disabled: every node is reported
StoreInDbDisabled(d) ==
    [rows |-> <<>>,
     result |-> [newly_stored_nodes |-> NonEmptyLayers(d),
                 stats |-> [stored |-> 0, duplicate |-> 0, low_confidence_rejected |-> 0]]]

\* the indices of the items whose insert store_in_db attempts
InsertAttempts(d) ==
    {i \in 1..Len(StoreItems(d)) : ~BelowThreshold(StoreItems(d)[i].node)}

\* store_reprocessed_nodes with the database enabled: the rows inserted when
\* the inserts of the items in fails return no id
StoreReprocessedRows(d, original_node_id, fails) ==
    LET items == StoreItems(d)
        kept  == PickIdx(items, (1..Len(items)) \ fails, 1)
    IN  [j \in 1..Len(kept) |-> MemoryNode(kept[j].layer, kept[j].node, "reprocess", original_node_id)]

----------------------------------------------------------------------------
(* Values of the variables a specification does not use *)

ChunkIdle ==
    /\ chunk_size = 2
    /\ overlap_size = 1
    /\ messages = <<>>
    /\ chunks = <<>>
    /\ chunk_outcome = "none"

ValIdle ==
    /\ raw_data = <<>>
    /\ validated_data = <<>>

DedupIdle ==
    /\ extracted_data = <<>>
    /\ deduplicated_data = <<>>
    /\ dedup_again = <<>>
    /\ llm_response = [kind |-> "api_error"]
    /\ tier = "none"

FuzzIdle == fuzz = [p \in {} |-> 0]

NoOp == [op |-> "none", force |-> FALSE]

NothingReturned == [kind |-> "none", nodes |-> <<>>]

NoStorageResult ==
    [newly_stored_nodes |-> <<>>,
     stats |-> [stored |-> 0, duplicate |-> 0, low_confidence_rejected |-> 0]]

MergeIdle == merged_data = <<>>

ReprocessFilterIdle ==
    /\ input_json = <<>>
    /\ excluded_message_ids = <<>>
    /\ filtered_messages = <<>>

ReprocessDedupIdle == reprocess_data = <<>>

RequestsIdle == requests = <<>>

BatchIdle ==
    /\ batch_entry = "none"
    /\ batch_files = <<>>
    /\ batch_idx = 1
    /\ batch_done = {}
    /\ batch_status = "none"

PipeIdle ==
    /\ db_enabled = FALSE
    /\ marker = FALSE
    /\ store = <<>>
    /\ pc = "off"
    /\ cur = NoOp
    /\ prev = NoOp
    /\ runs = 0
    /\ reprocs = 0
    /\ reviews = 0
    /\ chunk_idx = 1
    /\ all_extracted_data = <<>>
    /\ storage_result = NoStorageResult
    /\ returned = NothingReturned
    /\ run_inserts = <<>>

----------------------------------------------------------------------------
(* Specification SpecChunk: chunk_messages applied to bounded inputs *)

InitChunk ==
    /\ chunk_size \in 1..MaxChunkSize
    /\ overlap_size \in 0..(MaxChunkSize + 1)
    /\ \E n \in 0..MaxMsgs : messages = [i \in 1..n |-> Message(i)]
    /\ chunks = <<>>
    /\ chunk_outcome = "none"
    /\ ValIdle
    /\ DedupIdle
    /\ FuzzIdle
    /\ PipeIdle
    /\ MergeIdle
    /\ ReprocessFilterIdle
    /\ BatchIdle
    /\ ReprocessDedupIdle
    /\ RequestsIdle
    /\ phase = "input"

CallChunkMessages ==
    /\ chunk_outcome = "none"
    /\ LET r == ChunkMessages(messages, chunk_size, overlap_size)
       IN  /\ chunks' = r.chunks
           /\ chunk_outcome' = r.outcome
    /\ UNCHANGED <<auxVars, chunk_size, overlap_size, messages, valVars, fuzz, dedupVars, phase, pipeVars>>

NextChunk == CallChunkMessages

SpecChunk == InitChunk /\ [][NextChunk]_vars

----------------------------------------------------------------------------
(* Claims about chunk_messages *)

\* C9: chunk_messages on a non-empty message list with overlap_size >=
\* chunk_size ends with a configuration error: it never returns a list of
\* chunks.
C9_OverlapNotBelowSizeIsError ==
    (chunk_outcome # "none" /\ messages # <<>> /\ overlap_size >= chunk_size)
        => chunk_outcome = "error"

\* position of a message of the transcript (messages are distinct)
Pos(m) == CHOOSE j \in 1..Len(messages) : messages[j] = m

\* C10: for chunk_size > overlap_size >= 0 the chunks are in order, each is at
\* most chunk_size long, every message is in some chunk, and each chunk that
\* has a successor shares exactly its last overlap_size elements with the
\* first overlap_size elements of that successor; empty input gives no chunk.
C10_ChunksCoverAndOverlap ==
    (chunk_outcome # "none" /\ chunk_size > overlap_size) =>
        /\ chunk_outcome = "returned"
        /\ messages = <<>> => chunks = <<>>
        /\ \A c \in 1..Len(chunks) :
              /\ Len(chunks[c]) >= 1
              /\ Len(chunks[c]) <= chunk_size
              /\ \A k \in 1..Len(chunks[c]) :
                    /\ chunks[c][k] \in Range(messages)
                    /\ Pos(chunks[c][k]) = Pos(chunks[c][1]) + k - 1
        /\ \A c \in 1..(Len(chunks) - 1) :
              /\ Pos(chunks[c][1]) < Pos(chunks[c + 1][1])
              /\ Len(chunks[c]) >= overlap_size
              /\ Len(chunks[c + 1]) >= overlap_size
              /\ SubSeq(chunks[c], Len(chunks[c]) - overlap_size + 1, Len(chunks[c]))
                     = SubSeq(chunks[c + 1], 1, overlap_size)
              \* exactly overlap_size: the next shared element would differ
              /\ Pos(chunks[c + 1][1]) = Pos(chunks[c][Len(chunks[c])]) - overlap_size + 1
        /\ \A j \in 1..Len(messages) :
              \E c \in 1..Len(chunks) : messages[j] \in Range(chunks[c])

\* a run with several chunks and a non-zero overlap has been chunked
C10_Witness ==
    /\ chunk_outcome = "returned"
    /\ chunk_size > overlap_size
    /\ overlap_size >= 1
    /\ Len(chunks) >= 3
    /\ Len(chunks[Len(chunks)]) < chunk_size

----------------------------------------------------------------------------
(* Specification SpecValidate: _validate_extractions applied to bounded raw  *)
(* extraction responses                                                      *)

ValPool == {N_flight, N_travel_bad, N_food, N_food_ok, N_spouse_bare}

ValLayers == {"Layer1", "Layer3", "Layer4"}

InitValidate ==
    /\ raw_data \in DictsOver(ValLayers, SeqsUpTo(ValPool, MaxRawNodes), 2)
    /\ validated_data = <<>>
    /\ phase = "input"
    /\ ChunkIdle
    /\ DedupIdle
    /\ FuzzIdle
    /\ PipeIdle
    /\ MergeIdle
    /\ ReprocessFilterIdle
    /\ BatchIdle
    /\ ReprocessDedupIdle
    /\ RequestsIdle

CallValidate ==
    /\ phase = "input"
    /\ validated_data' = ValidateExtractions(raw_data)
    /\ phase' = "done"
    /\ UNCHANGED <<auxVars, raw_data, chunkVars, fuzz, dedupVars, pipeVars>>

NextValidate == CallValidate

SpecValidate == InitValidate /\ [][NextValidate]_vars

\* C8: each Layer1 candidate of a travel fact_type with confidence at least
\* 0.75 and no contentless snippet is in the Layer4 bucket of the Validator
\* output and not in its Layer1 bucket, whatever else the raw result holds
\* and in whatever order its layers appear.
C8_TravelMovedToLayer4 ==
    (phase = "done" /\ DictHas(raw_data, "Layer1")) =>
        \A i \in 1..Len(DictGet(raw_data, "Layer1")) :
            LET node == DictGet(raw_data, "Layer1")[i]
            IN  (/\ node.detail.type \in TravelTypes
                 /\ node.confidence >= CONFIDENCE_THRESHOLD
                 /\ ~HasInvalidEvidence(node))
                => /\ node \in Range(DictGetOr(validated_data, "Layer4", <<>>))
                   /\ node \notin Range(DictGetOr(validated_data, "Layer1", <<>>))

\* C19: no candidate of the Validator output, in any layer and of any
\* fact_type, has an evidence entry whose normalised snippet is a contentless
\* phrase; this includes the Layer1 travel candidates moved to Layer4.
C19_NoContentlessEvidenceInOutput ==
    phase = "done" =>
        \A i \in 1..Len(validated_data) :
            \A node \in Range(validated_data[i].v) : ~HasInvalidEvidence(node)

----------------------------------------------------------------------------
(* Specification SpecTierB: _apply_fallback_deduplication applied to bounded *)
(* per-layer candidate lists under every fuzz.ratio table, then applied to   *)
(* its own output                                                            *)

DedupValues == {DV_a, DV_A, DV_b, DV_c}

DedupPool == {D_addr_a, D_addr_c, D_addr_b, D_name_A, D_name_b,
              D_phone_a, D_phone_b, D_phone_c, D_email_a, D_email_A}

DedupPoolLayer3 == {D_phone_c, D_name_b}

InitTierB ==
    /\ fuzz \in FuzzTables(DedupValues)
    /\ \E l1 \in SeqsUpTo(DedupPool, MaxDedupNodes), l3 \in SeqsUpTo(DedupPoolLayer3, 1) :
          extracted_data = <<[k |-> "Layer1", v |-> l1], [k |-> "Layer3", v |-> l3]>>
    /\ deduplicated_data = <<>>
    /\ dedup_again = <<>>
    /\ llm_response = [kind |-> "api_error"]
    /\ tier = "none"
    /\ phase = "input"
    /\ ChunkIdle
    /\ ValIdle
    /\ PipeIdle
    /\ MergeIdle
    /\ ReprocessFilterIdle
    /\ BatchIdle
    /\ ReprocessDedupIdle
    /\ RequestsIdle

CallTierB ==
    /\ phase = "input"
    /\ deduplicated_data' = ApplyFallbackDeduplication(extracted_data)
    /\ tier' = "B"
    /\ phase' = "once"
    /\ UNCHANGED <<auxVars, extracted_data, dedup_again, llm_response, fuzz, chunkVars, valVars, pipeVars>>

CallTierBAgain ==
    /\ phase = "once"
    /\ dedup_again' = ApplyFallbackDeduplication(deduplicated_data)
    /\ phase' = "twice"
    /\ UNCHANGED <<auxVars, extracted_data, deduplicated_data, llm_response, tier, fuzz, chunkVars, valVars, pipeVars>>

NextTierB == CallTierB \/ CallTierBAgain

SpecTierB == InitTierB /\ [][NextTierB]_vars

PhonesOf(data) == OfType(AllNodes(data), "phone_number")

\* C4: the Tier B result holds at most one phone_number candidate over all
\* layers together, and it is the first-seen candidate of maximal confidence
\* among the phone_number candidates of the input.
C4_OnePhonePerUser ==
    phase # "input" =>
        /\ Len(PhonesOf(deduplicated_data)) <= 1
        /\ PhonesOf(extracted_data) # <<>> =>
               PhonesOf(deduplicated_data) = DeduplicatePhoneNumbers(PhonesOf(extracted_data))

\* C6: Tier B applied to its own output returns that output unchanged, the
\* same candidates in the same order.
C6_TierBIdempotent ==
    phase = "twice" => dedup_again = deduplicated_data

\* C26: after Tier B no two candidates of one layer with the same
\* fact_type, other than email, have normalised values whose similarity
\* ratio is above 85.
C26_NoSimilarPairSurvives ==
    phase # "input" =>
        \A l \in 1..Len(deduplicated_data) :
            LET outp == deduplicated_data[l].v
            IN  \A i, j \in 1..Len(outp) :
                    (/\ i < j
                     /\ outp[i].detail.type = outp[j].detail.type
                     /\ outp[i].detail.type # "email")
                    => Ratio(Normalize(outp[i].detail.value),
                             Normalize(outp[j].detail.value)) <= FUZZ_THRESHOLD

----------------------------------------------------------------------------
(* Specification SpecTierA: deduplicate_with_llm applied to bounded inputs  *)
(* and bounded responses of the extraction capability                       *)

TierAFacts == {TF_phone, TF_noevkey, TF_notype, TF_number, TF_junkev}

TierALayers == {"Layer1", "Layer3", "Layer5"}

TierAInputs ==
    {<<[k |-> "Layer1", v |-> l1], [k |-> "Layer3", v |-> l3]>> :
        l1 \in {<<>>, <<N_phone>>, <<N_phone, N_phone2>>}, l3 \in {<<>>, <<N_spouse>>}}
    \cup {<<[k |-> "Layer1", v |-> <<N_phone>>]>>, <<>>}

InitTierA ==
    /\ extracted_data \in TierAInputs
    /\ llm_response \in DedupResponses(TierALayers, TierAFacts, MaxTierAFacts)
    /\ fuzz \in {[p \in DOMAIN f |-> 80] : f \in FuzzTables({V_Phone1, V_Phone2, V_Sarah})}
    /\ deduplicated_data = <<>>
    /\ dedup_again = <<>>
    /\ tier = "none"
    /\ phase = "input"
    /\ ChunkIdle
    /\ ValIdle
    /\ PipeIdle
    /\ MergeIdle
    /\ ReprocessFilterIdle
    /\ BatchIdle
    /\ ReprocessDedupIdle
    /\ RequestsIdle

CallDeduplicateWithLlm ==
    /\ phase = "input"
    /\ LET r == DeduplicateWithLlm(extracted_data, llm_response)
       IN  /\ deduplicated_data' = r.data
           /\ tier' = r.tier
    /\ phase' = "done"
    /\ UNCHANGED <<auxVars, extracted_data, llm_response, dedup_again, fuzz, chunkVars, valVars, pipeVars>>

NextTierA == CallDeduplicateWithLlm

SpecTierA == InitTierA /\ [][NextTierA]_vars

\* the response, read on its own terms
RespCallFailed == llm_response.kind \in {"api_error", "no_content"}

RespUnparsable == llm_response.kind = "unparsable"

RespLayerNames ==
    CASE llm_response.kind = "json" -> {llm_response.val[i].k : i \in 1..Len(llm_response.val)}
      [] llm_response.kind = "unparsable" -> Range(llm_response.rescued)
      [] OTHER -> {}

RespMissingLayer == DictKeys(extracted_data) \ RespLayerNames # {}

RespHasNoFact ==
    \/ llm_response.kind # "json"
    \/ \A i \in 1..Len(llm_response.val) :
           "v" \in DOMAIN llm_response.val[i] /\ llm_response.val[i].v = <<>>

RespCollapse == SumLens(extracted_data) > 0 /\ RespHasNoFact

\* the parsed output makes the checks or the conversion raise
RespRaises ==
    \/ llm_response.kind = "json_other"
    \/ /\ llm_response.kind = "json"
       /\ \E i \in 1..Len(llm_response.val) :
             LET e == llm_response.val[i]
             IN  \/ "nonlist" \in DOMAIN e /\ e.nonlist = "null"
                 \/ /\ "v" \in DOMAIN e
                    /\ \E j \in 1..Len(e.v) :
                          \/ e.v[j] = [junk |-> "number"]
                          \/ /\ {"type", "value", "evidence"} \subseteq DOMAIN e.v[j]
                             /\ [junk |-> "string"] \in Range(e.v[j].evidence)

C29_ResultNotEmptied ==
    (phase = "done" /\ SumLens(extracted_data) > 0) => SumLens(deduplicated_data) > 0


----------------------------------------------------------------------------
(* Specification Spec: the ingestion pipeline, the review operations and    *)
(* the reprocessor over one user's transcript and one Fact Store            *)

MaxRuns == 2
MaxReprocess == 1
MaxReviews == 1
\* a process_json call starts only on a store of at most MaxStore rows
MaxStore == 1

\* the transcript of the user: one conversation, the second query without id
InputJson ==
    <<[user_queries |-> <<[message_id |-> M1, message |-> S_Claim], [message |-> S_Ok]>>,
       team_replies |-> <<[message_id |-> M3, message |-> S_Ok]>>]>>

Json(val) == [kind |-> "json", val |-> val]

\* the answers of the extraction capability to an extraction call
ExtractResponses ==
    { [kind |-> "api_error"], [kind |-> "not_json"], [kind |-> "bad_shape"],
      Json(<<[k |-> "Layer1", v |-> <<N_phone_noev>>], [k |-> "Layer3", v |-> <<N_spouse_bare, N_spouse>>]>>),
      Json(<<[k |-> "Layer4", v |-> <<N_food, N_food_low>>], [k |-> "Layer1", v |-> <<N_travel_bad>>]>>),
      Json(<<[k |-> "Layer2", v |-> <<N_novalue>>]>>) }

\* the answers of the extraction capability to a reprocessing call
ReprocessResponses ==
    { [kind |-> "api_error"],
      Json(<<[k |-> "Layer1", v |-> <<N_phone2>>]>>),
      Json(<<[k |-> "Layer1", v |-> <<N_travel_bad>>]>>),
      Json(<<[k |-> "Layer4", v |-> <<N_food>>]>>) }

\* a node as a fact of the deduplication response
AsFact(node) ==
    [type |-> node.detail.type, value |-> node.detail.value, confidence |-> node.confidence,
     evidence |-> [i \in 1..Len(node.evidence) |->
                      Ev2(node.evidence[i].message_id, node.evidence[i].message_snippet)]]

\* the response that returns every fact of the input unchanged
EchoResponse(data) ==
    Json([i \in 1..Len(data) |->
             [k |-> data[i].k, v |-> [j \in 1..Len(data[i].v) |-> AsFact(data[i].v[j])]]])

\* the answers of the extraction capability to the deduplication call on data
PipeDedupResponses(data) ==
    { [kind |-> "api_error"],
      [kind |-> "unparsable", rescued |-> <<>>],
      EchoResponse(data),
      Json(<<[k |-> "Layer1", v |-> <<TF_emptyev, TF_lowconf>>], [k |-> "Layer2", v |-> <<>>],
             [k |-> "Layer3", v |-> <<TF_bare>>], [k |-> "Layer4", v |-> <<>>],
             [k |-> "Notes", v |-> <<>>]>>) }

PipeValues == {V_AI202, V_Wife, V_Sarah, V_Tea, V_Phone1, V_Phone2}

\* fuzz.ratio on the values of the pipeline: every pair of distinct values
\* below the threshold
PipeFuzz ==
    LET nv == {Normalize(v) : v \in PipeValues}
    IN  [p \in {{a, b} : a, b \in nv} \ {{a} : a \in nv} |-> 80]

Init ==
    /\ chunk_size = 2
    /\ overlap_size = 1
    /\ messages = <<>>
    /\ chunks = <<>>
    /\ chunk_outcome = "none"
    /\ ValIdle
    /\ DedupIdle
    /\ fuzz = PipeFuzz
    /\ phase = "pipeline"
    /\ db_enabled \in BOOLEAN
    /\ marker = FALSE
    /\ store = <<>>
    /\ pc = "idle"
    /\ cur = NoOp
    /\ prev = NoOp
    /\ runs = 0
    /\ reprocs = 0
    /\ reviews = 0
    /\ chunk_idx = 1
    /\ all_extracted_data = <<>>
    /\ storage_result = NoStorageResult
    /\ returned = NothingReturned
    /\ run_inserts = <<>>
    /\ MergeIdle
    /\ ReprocessFilterIdle
    /\ BatchIdle
    /\ ReprocessDedupIdle
    /\ RequestsIdle

\* the local variables of process_json when it has returned
RunLocalsGone ==
    /\ messages' = <<>>
    /\ chunks' = <<>>
    /\ chunk_outcome' = "none"
    /\ chunk_idx' = 1
    /\ all_extracted_data' = <<>>
    /\ extracted_data' = <<>>
    /\ deduplicated_data' = <<>>
    /\ tier' = "none"
    /\ storage_result' = NoStorageResult

\* process_json up to the chunking: the marker check, the flattening and
\* chunk_messages; processed is what is_file_processed answers
BeginRun(force_reprocess, processed) ==
    /\ pc = "idle"
    /\ runs < MaxRuns
    /\ Len(store) <= MaxStore
    /\ runs' = runs + 1
    /\ prev' = cur
    /\ cur' = [op |-> "process_json", force |-> force_reprocess]
    /\ run_inserts' = <<>>
    /\ IF ~force_reprocess /\ db_enabled /\ processed
       THEN /\ returned' = [kind |-> "skipped", nodes |-> <<>>]
            /\ pc' = "idle"
            /\ UNCHANGED <<auxVars, messages, chunks, chunk_outcome, chunk_idx, all_extracted_data>>
       ELSE LET all_messages == Flatten(InputJson)
                r == ChunkMessages(all_messages, chunk_size, overlap_size)
            IN  /\ messages' = all_messages
                /\ chunks' = r.chunks
                /\ chunk_outcome' = r.outcome
                /\ chunk_idx' = 1
                /\ all_extracted_data' = <<>>
                /\ returned' = NothingReturned
                /\ pc' = IF r.chunks = <<>> THEN "merge" ELSE "extract"
    /\ UNCHANGED <<auxVars, chunk_size, overlap_size, valVars, fuzz, dedupVars, phase,
                   db_enabled, marker, store, reprocs, reviews, storage_result>>

\* is_file_processed: the marker, or False when the query fails
IsFileProcessedAnswers == {marker, FALSE}

\* where process_json would go if it left the chunk loop after any chunk
AfterChunkLeaveLoop(i, n) == "merge"

\* where process_json goes after chunk i of n: the next chunk, or past the loop
AfterChunk(i, n) == IF i = n THEN "merge" ELSE "extract"

\* one iteration of the chunk loop of process_json
ExtractChunk ==
    /\ pc = "extract"
    /\ \E resp \in ExtractResponses :
          LET extracted == CallLlmForExtraction(resp)
          IN  all_extracted_data' = IF extracted # <<>>
                                    THEN Append(all_extracted_data, extracted)
                                    ELSE all_extracted_data
    /\ chunk_idx' = chunk_idx + 1
    /\ pc' = AfterChunk(chunk_idx, Len(chunks))
    /\ UNCHANGED <<auxVars, chunkVars, valVars, fuzz, dedupVars, phase, db_enabled, marker, store,
                   cur, prev, runs, reprocs, reviews, storage_result, returned, run_inserts>>

\* after the chunk loop: return {} when nothing was extracted, else
\* merge_extracted_data and deduplicate_with_llm; an exception of the merge
\* leaves process_json, which catches nothing
MergeAndDedup ==
    /\ pc = "merge"
    /\ IF all_extracted_data = <<>>
       THEN /\ returned' = [kind |-> "facts", nodes |-> <<>>]
            /\ pc' = "idle"
            /\ RunLocalsGone
       ELSE IF MergeRaises(all_extracted_data)
       THEN /\ returned' = [kind |-> "raised", nodes |-> <<>>]
            /\ pc' = "idle"
            /\ RunLocalsGone
       ELSE LET merged == MergeExtractedData(all_extracted_data)
            IN  /\ \E resp \in PipeDedupResponses(merged) :
                      LET r == DeduplicateWithLlm(merged, resp)
                      IN  /\ deduplicated_data' = r.data
                          /\ tier' = r.tier
                /\ extracted_data' = merged
                /\ pc' = "store"
                /\ UNCHANGED <<auxVars, messages, chunks, chunk_outcome, chunk_idx, all_extracted_data,
                               returned, storage_result>>
    /\ UNCHANGED <<auxVars, chunk_size, overlap_size, valVars, fuzz, dedup_again, llm_response, phase,
                   db_enabled, marker, store, cur, prev, runs, reprocs, reviews, run_inserts>>

\* the inserts that return no id during one store loop: none, or the first
\* one attempted
FailureSets(attempts) ==
    {{}} \cup {{SetMin(attempts)} : x \in {y \in {1} : attempts # {}}}

\* store_in_db on the deduplicated data
StoreInDb ==
    /\ pc = "store"
    /\ \E fails \in FailureSets(InsertAttempts(deduplicated_data)) :
          LET r == IF db_enabled THEN StoreInDbEnabled(deduplicated_data, fails)
                   ELSE StoreInDbDisabled(deduplicated_data)
          IN  /\ ~db_enabled => fails = {}
              /\ store' = store \o r.rows
              /\ run_inserts' = r.rows
              /\ storage_result' = r.result
    /\ pc' = "mark"
    /\ UNCHANGED <<auxVars, chunkVars, valVars, fuzz, dedupVars, phase, db_enabled, marker,
                   cur, prev, runs, reprocs, reviews, chunk_idx, all_extracted_data, returned>>

\* mark_file_processed when the database is enabled (the upsert may fail),
\* and the return of the newly stored nodes
MarkProcessed ==
    /\ pc = "mark"
    /\ \E ok \in BOOLEAN :
          /\ ~db_enabled => ~ok
          /\ marker' = (marker \/ ok)
    /\ returned' = [kind |-> "facts", nodes |-> storage_result.newly_stored_nodes]
    /\ pc' = "idle"
    /\ RunLocalsGone
    /\ UNCHANGED <<auxVars, chunk_size, overlap_size, valVars, fuzz, dedup_again, llm_response, phase,
                   db_enabled, store, cur, prev, runs, reprocs, reviews, run_inserts>>


\* SupabaseManager.approve_update on row id: no condition on the current status
ApproveUpdate(id) ==
    /\ pc = "idle"
    /\ db_enabled
    /\ reviews < MaxReviews
    /\ reviews' = reviews + 1
    /\ store' = [store EXCEPT ![id].status = "approved"]
    /\ UNCHANGED <<auxVars, chunkVars, valVars, fuzz, dedupVars, phase, db_enabled, marker, pc, cur, prev,
                   runs, reprocs, chunk_idx, all_extracted_data, storage_result, returned,
                   run_inserts>>

\* SupabaseManager.reject_update on row id
RejectUpdate(id) ==
    /\ pc = "idle"
    /\ db_enabled
    /\ reviews < MaxReviews
    /\ reviews' = reviews + 1
    /\ store' = [store EXCEPT ![id].status = "rejected", ![id].needs_reprocess = TRUE]
    /\ UNCHANGED <<auxVars, chunkVars, valVars, fuzz, dedupVars, phase, db_enabled, marker, pc, cur, prev,
                   runs, reprocs, chunk_idx, all_extracted_data, storage_result, returned,
                   run_inserts>>

\* the message ids of the evidence of a row that carry one
ExcludedMessageIds(row) ==
    {row.evidence[i].message_id : i \in {j \in 1..Len(row.evidence) : "message_id" \in DOMAIN row.evidence[j]}}

\* Layer<n> for the layer number of a row
LayerKeyOf(n) == <<"Layer1", "Layer2", "Layer3", "Layer4", "Layer5">>[n]

RECURSIVE ReprocessExtend(_, _)
\* extracted_data[layer_key] after the chunk loop of reprocess_rejected_fact,
\* for the responses resps to the calls, one per chunk
ReprocessExtend(resps, layer_key) ==
    IF resps = <<>> THEN <<>>
    ELSE DictGetOr(CallLlmForExtraction(Head(resps)), layer_key, <<>>)
         \o ReprocessExtend(Tail(resps), layer_key)

\* filtered_messages of reprocess_rejected_fact: the messages of the reloaded
\* transcript whose id is not among the excluded ids
FilteredMessages(input, excluded) ==
    SelectSeq(FlattenForReprocess(input), LAMBDA m : m.id \notin excluded)

\* the chunks reprocess_rejected_fact builds for a rejected row
ReprocessChunks(row) ==
    ChunkMessages(FilteredMessages(InputJson, ExcludedMessageIds(row)),
                  chunk_size, overlap_size).chunks

\* POST /api/reprocess/{id}: reprocess_rejected_fact and store_reprocessed_nodes
Reprocess(id) ==
    /\ pc = "idle"
    /\ db_enabled
    /\ reprocs < MaxReprocess
    /\ store[id].status = "rejected"
    /\ store[id].needs_reprocess
    /\ reprocs' = reprocs + 1
    /\ LET layer_key == LayerKeyOf(store[id].layer)
           n == Len(ReprocessChunks(store[id]))
       IN  \E resps \in [1..n -> ReprocessResponses] :
              LET nodes == ReprocessExtend(resps, layer_key)
                  deduped == <<[k |-> layer_key, v |-> DeduplicateFacts(nodes)]>>
              IN  IF nodes = <<>>
                  THEN store' = store
                  ELSE \E fails \in FailureSets(1..Len(StoreItems(deduped))), marked \in BOOLEAN :
                          LET rows == StoreReprocessedRows(deduped, id, fails)
                              done == rows # <<>> /\ marked
                          IN  store' = [store EXCEPT ![id].needs_reprocess = IF done THEN FALSE ELSE @]
                                       \o rows
    /\ UNCHANGED <<auxVars, chunkVars, valVars, fuzz, dedupVars, phase, db_enabled, marker, pc, cur, prev,
                   runs, reviews, chunk_idx, all_extracted_data, storage_result, returned,
                   run_inserts>>

Next ==
    \/ \E force_reprocess \in BOOLEAN, processed \in IsFileProcessedAnswers :
          BeginRun(force_reprocess, processed)
    \/ ExtractChunk
    \/ MergeAndDedup
    \/ StoreInDb
    \/ MarkProcessed
    \/ \E id \in 1..Len(store) : ApproveUpdate(id)
    \/ \E id \in 1..Len(store) : RejectUpdate(id)
    \/ \E id \in 1..Len(store) : Reprocess(id)

Spec == Init /\ [][Next]_vars


----------------------------------------------------------------------------
(* Claims on the pipeline *)

\* the last two operations were process_json calls without force_reprocess,
\* with no review or reprocessing call made
SecondUnforcedRun ==
    /\ cur.op = "process_json" /\ ~cur.force
    /\ prev.op = "process_json" /\ ~prev.force
    /\ reviews = 0 /\ reprocs = 0

\* C1: when process_json runs twice in a row on the same input without
\* force_reprocess, the second run inserts no row into the Fact Store and
\* returns an empty newly-stored set, whatever the first run extracted and
\* whether or not the store is reachable.
C1_SecondRunAddsNothing ==
    SecondUnforcedRun =>
        /\ run_inserts = <<>>
        /\ (pc = "idle" => returned.nodes = <<>>)

\* C2: no row of the Fact Store has a confidence below 0.75, whether it was
\* inserted by store_in_db or by store_reprocessed_nodes.
C2_NoLowConfidenceRow ==
    \A i \in 1..Len(store) : store[i].confidence >= CONFIDENCE_THRESHOLD

\* C3: no row of the Fact Store has a fact_type of relationship,
\* family_member or spouse with a bare relation word as its value.
C3_NoBareRelationRow ==
    \A i \in 1..Len(store) : ~IsBareRelation(store[i].fact_type, store[i].content)

\* C5: every row of the Fact Store has at least one evidence entry.
C5_EveryRowHasEvidence ==
    \A i \in 1..Len(store) : Len(store[i].evidence) >= 1


\* the rows the run in progress inserted, as a set
InsertedThisRun == Range(run_inserts)

\* C11: every fact in the set process_json returns was inserted into the
\* Fact Store by that run; a failed insert, a disabled store or an error
\* part-way through the store loop contributes nothing to the returned set.
C11_ReturnedWereInserted ==
    (pc = "idle" /\ returned.kind = "facts") =>
        \A l \in 1..Len(returned.nodes) :
            /\ HasLayerNumber(returned.nodes[l].k)
            /\ \A j \in 1..Len(returned.nodes[l].v) :
                  MemoryNode(returned.nodes[l].k, returned.nodes[l].v[j], "initial", 0)
                      \in InsertedThisRun

\* the mapping a skipped call would return if it returned no entries
SkippedResultEmpty == <<>>

\* the mapping process_json returns when it skips an already processed user
SkippedResult ==
    <<[k |-> "message", v |-> "Already processed"], [k |-> "skipped", v |-> TRUE]>>

\* the value of the last process_json call as the caller sees it
ReturnValue == IF returned.kind = "skipped" THEN SkippedResult ELSE returned.nodes

\* the last process_json call returned at the marker check
Skipped == pc = "idle" /\ returned.kind = "skipped"

\* a skipped call made no extraction call, no deduplication call and no write
SkippedDidNothing ==
    /\ run_inserts = <<>>
    /\ all_extracted_data = <<>>
    /\ chunks = <<>>
    /\ tier = "none"
    /\ storage_result = NoStorageResult

C28_ReprocessedRowsMatchTarget ==
    \A i \in 1..Len(store) :
        store[i].extraction_method = "reprocess" =>
            /\ store[i].layer = store[store[i].parent_update_id].layer
            /\ store[i].fact_type = store[store[i].parent_update_id].fact_type

\* the rows store_memory_node makes of the nodes of d, layer by layer
RowsOf(d) ==
    [i \in 1..Len(StoreItems(d)) |->
        MemoryNode(StoreItems(d)[i].layer, StoreItems(d)[i].node, "initial", 0)]

\* C23: a rejected write is counted and the writes of the remaining
\* candidates are still attempted: when store_in_db has returned, stored +
\* failed + low-confidence-rejected is the number of candidates it was
\* handed, every candidate at or above the threshold was either stored or
\* counted as failed, and the returned set holds exactly the stored ones.
C23_CountersAddUp ==
    pc = "mark" =>
        LET stats == storage_result.stats
        IN  /\ stats.stored + stats.duplicate + stats.low_confidence_rejected
                   = SumLens(deduplicated_data)
            /\ stats.low_confidence_rejected
                   = Len(SelectSeq(AllNodes(deduplicated_data), BelowThreshold))
            /\ stats.stored = Len(run_inserts)
            /\ RowsOf(storage_result.newly_stored_nodes) = run_inserts

\* C22: within a process_json run the extraction calls are made in chunk
\* order, one per chunk and none repeated, each after the result of the
\* chunk before it was validated and recorded; the deduplication call is
\* made once, after the result of the last chunk was consumed, and the Fact
\* Store is written only after the deduplication.
C22_ChunksThenDedupThenStore ==
    [][/\ pc = "extract" =>
            /\ chunk_idx <= Len(chunks)
            /\ chunk_idx' = chunk_idx + 1
            /\ \/ all_extracted_data' = all_extracted_data
               \/ /\ Len(all_extracted_data') = Len(all_extracted_data) + 1
                  /\ SubSeq(all_extracted_data', 1, Len(all_extracted_data)) = all_extracted_data
            /\ UNCHANGED <<tier, deduplicated_data, store>>
       /\ (tier = "none" /\ tier' # "none") =>
            /\ pc = "merge"
            /\ chunk_idx = Len(chunks) + 1
            /\ pc' = "store"
            /\ UNCHANGED store
       /\ (pc # "idle" /\ store' # store) =>
            /\ pc = "store"
            /\ chunk_idx = Len(chunks) + 1
            /\ tier # "none"
            /\ UNCHANGED <<tier, deduplicated_data, all_extracted_data>>]_vars

\* a run over at least two chunks, of which at least two gave candidates,
\* went through the deduplication and wrote to the Fact Store
C22_Witness ==
    /\ pc = "mark"
    /\ Len(chunks) >= 2
    /\ chunk_idx = Len(chunks) + 1
    /\ Len(all_extracted_data) >= 2
    /\ tier # "none"
    /\ run_inserts # <<>>
    /\ db_enabled

\* some chunk of the run contributed candidates that the merge accepts
SomeChunkMergeable ==
    \E i \in 1..Len(all_extracted_data) : ~MergeRaises(<<all_extracted_data[i]>>)

\* C16: whatever the extraction call of a chunk answers (a failure, text
\* that is no JSON, JSON of an unexpected shape), no error leaves the chunk
\* loop and the next chunk is submitted, and once the loop is over the
\* candidates of the other chunks go through merge and deduplication to
\* persistence.
C16_ChunkFailureIsIsolated ==
    [][/\ pc = "extract" =>
            /\ chunk_idx' = chunk_idx + 1
            /\ pc' = IF chunk_idx < Len(chunks) THEN "extract" ELSE "merge"
       /\ (pc = "merge" /\ SomeChunkMergeable) => pc' = "store"]_vars


----------------------------------------------------------------------------
(* Specification SpecMerge: merge_extracted_data applied to bounded lists   *)
(* of validated chunk results under every fuzz.ratio table                  *)

MergePool == {D_name_A, D_name_b, D_addr_a}

MergeLayers == {"Layer1", "Layer5"}

\* the validated result of one chunk: one layer with at least one candidate
ChunkResults ==
    {<<[k |-> l, v |-> ns]>> : l \in MergeLayers,
                               ns \in SeqsUpTo(MergePool, MaxMergeNodes) \ {<<>>}}

InitMerge ==
    /\ fuzz \in FuzzTables({DV_A, DV_b})
    /\ all_extracted_data \in SeqsUpTo(ChunkResults, MaxMergeChunks) \ {<<>>}
    /\ merged_data = <<>>
    /\ phase = "input"
    /\ ChunkIdle
    /\ ValIdle
    /\ DedupIdle
    /\ db_enabled = FALSE
    /\ marker = FALSE
    /\ store = <<>>
    /\ pc = "off"
    /\ cur = NoOp
    /\ prev = NoOp
    /\ runs = 0
    /\ reprocs = 0
    /\ reviews = 0
    /\ chunk_idx = 1
    /\ storage_result = NoStorageResult
    /\ returned = NothingReturned
    /\ run_inserts = <<>>
    /\ ReprocessFilterIdle
    /\ BatchIdle
    /\ ReprocessDedupIdle
    /\ RequestsIdle

\* merged_data = self.merge_extracted_data(all_extracted_data)
CallMerge ==
    /\ phase = "input"
    /\ merged_data' = MergeExtractedData(all_extracted_data)
    /\ phase' = "merged"
    /\ UNCHANGED <<chunkVars, valVars, fuzz, dedupVars, pipeVars, input_json,
                   excluded_message_ids, filtered_messages, batch_entry, batch_files,
                   batch_idx, batch_done, batch_status, reprocess_data, requests>>

NextMerge == CallMerge

SpecMerge == InitMerge /\ [][NextMerge]_vars

\* the candidates of all chunk results per fixed layer key, in chunk order
\* and then within-chunk order
Concatenation ==
    [i \in 1..Len(LayerKeys) |->
        [k |-> LayerKeys[i], v |-> ExtendLayer(all_extracted_data, LayerKeys[i])]]

\* C13: merge_extracted_data returns, for each of the four layer keys, exactly
\* the concatenation of the chunk results in chunk order: no candidate is
\* removed or reordered at the merge step.
C13_MergeIsConcatenation ==
    phase = "merged" => merged_data = Concatenation


----------------------------------------------------------------------------
(* Specification SpecReprocessFilter: the message filter of                 *)
(* reprocess_rejected_fact applied to bounded transcripts and to every set  *)
(* of message ids the initial run assigned                                  *)

\* the message_id of entry j of the list named kind in conversation c
SourceId(c, kind, j) == <<"m", IdxStr(c), kind, IdxStr(j)>>

\* an entry of a conversation: with its message_id when has_id, else without
Entry(has_id, c, kind, j) ==
    IF has_id THEN [message_id |-> SourceId(c, kind, j), message |-> S_Claim]
    ELSE [message |-> S_Claim]

\* the transcript in which the entries marked TRUE carry a message_id
Transcript(shape) ==
    [c \in 1..Len(shape) |->
        [user_queries |-> [j \in 1..Len(shape[c].u) |-> Entry(shape[c].u[j], c - 1, "u", j)],
         team_replies |-> [j \in 1..Len(shape[c].t) |-> Entry(shape[c].t[j], c - 1, "t", j)]]]

Transcripts ==
    {Transcript(shape) :
        shape \in SeqsUpTo([u : SeqsUpTo(BOOLEAN, MaxQueries), t : SeqsUpTo(BOOLEAN, MaxReplies)],
                           MaxConvs)}

\* the ids the initial run gave the messages of a transcript
AssignedIds(input) == {Flatten(input)[i].id : i \in 1..Len(Flatten(input))}

InitReprocessFilter ==
    /\ input_json \in Transcripts
    /\ messages = Flatten(input_json)
    /\ excluded_message_ids \in SUBSET AssignedIds(input_json)
    /\ filtered_messages = <<>>
    /\ phase = "input"
    /\ chunk_size = 2
    /\ overlap_size = 1
    /\ chunks = <<>>
    /\ chunk_outcome = "none"
    /\ ValIdle
    /\ DedupIdle
    /\ FuzzIdle
    /\ PipeIdle
    /\ MergeIdle
    /\ BatchIdle
    /\ ReprocessDedupIdle
    /\ RequestsIdle

\* reprocess_rejected_fact up to the re-chunking
CallReprocessFilter ==
    /\ phase = "input"
    /\ filtered_messages' = FilteredMessages(input_json, excluded_message_ids)
    /\ chunks' = ChunkMessages(filtered_messages', chunk_size, overlap_size).chunks
    /\ phase' = "done"
    /\ UNCHANGED <<chunk_size, overlap_size, messages, chunk_outcome, valVars, fuzz, dedupVars,
                   pipeVars, merged_data, input_json, excluded_message_ids, batch_entry,
                   batch_files, batch_idx, batch_done, batch_status, reprocess_data, requests>>

NextReprocessFilter == CallReprocessFilter

SpecReprocessFilter == InitReprocessFilter /\ [][NextReprocessFilter]_vars

\* the positions of the transcript whose initial-run id is not excluded
KeptPositions == {i \in 1..Len(messages) : messages[i].id \notin excluded_message_ids}

\* C14: reprocess_rejected_fact leaves a message out of the re-chunked
\* sequence exactly when the id the initial run assigned to it (the source
\* message_id, or the synthetic unknown_<sender>_<conversation_index> id) is
\* one of the evidence message ids; the other messages keep their order.
C14_ExcludesExactlyEvidenceMessages ==
    phase = "done" =>
        filtered_messages = PickIdx(FlattenForReprocess(input_json), KeptPositions, 1)


----------------------------------------------------------------------------
(* Claims on the reprocessor in the pipeline *)

\* a step of the reprocessing endpoint
ReprocessStep == reprocs' = reprocs + 1

\* the rows a step appended to the Fact Store
NewRows == SubSeq(store', Len(store) + 1, Len(store'))

\* the rows written by a reprocessing step for the rejected row id
WrittenFor(id) ==
    \A j \in 1..Len(NewRows) :
        /\ NewRows[j].extraction_method = "reprocess"
        /\ NewRows[j].status = "pending"
        /\ NewRows[j].parent_update_id = id

\* a reprocessing step leaves every row but the rejected one as it was
OthersUntouched(id) ==
    \A i \in 1..Len(store) : i # id => store'[i] = store[i]

\* C15: every row the reprocessor writes has extraction_method
\* reprocess, status pending and the rejected row as parent; the rejected
\* row's needs_reprocess flag is cleared exactly when at least one such write
\* succeeded.
C15_FlagClearedIffWritten ==
    [][ReprocessStep =>
          \E id \in 1..Len(store) :
              /\ store[id].status = "rejected" /\ store[id].needs_reprocess
              /\ WrittenFor(id)
              /\ OthersUntouched(id)
              /\ (~store'[id].needs_reprocess <=> NewRows # <<>>)]_vars


----------------------------------------------------------------------------
(* Specification SpecBatch: the three batch loops over the users' files     *)

(* The condition of a file of the batch is                                  *)
(*   "ok"          it loads and process_json returns                        *)
(*   "missing"     there is no file at the path                             *)
(*   "unloadable"  json.load raises on its content                          *)
(*   "raises"      it loads and process_json raises                         *)
FileConditions == {"ok", "missing", "unloadable", "raises"}

BatchEntries == {"cli", "extractor_main", "endpoint"}

InitBatch ==
    /\ batch_entry \in BatchEntries
    /\ batch_files \in SeqsUpTo(FileConditions, MaxFiles) \ {<<>>}
    /\ batch_idx = 1
    /\ batch_done = {}
    /\ batch_status = "running"
    /\ ReprocessDedupIdle
    /\ RequestsIdle
    /\ phase = "batch"
    /\ ChunkIdle
    /\ ValIdle
    /\ DedupIdle
    /\ FuzzIdle
    /\ PipeIdle
    /\ MergeIdle
    /\ ReprocessFilterIdle

\* one iteration of a loop whose body checks os.path.exists and catches
\* nothing: a missing file is skipped, an exception of json.load or of
\* process_json leaves the loop
UnguardedIteration ==
    /\ batch_status = "running"
    /\ batch_idx <= Len(batch_files)
    /\ IF batch_files[batch_idx] \in {"ok", "missing"}
       THEN /\ batch_done' = batch_done \cup {batch_idx}
            /\ batch_idx' = batch_idx + 1
            /\ UNCHANGED batch_status
       ELSE /\ batch_status' = "aborted"
            /\ UNCHANGED <<batch_done, batch_idx>>
    /\ UNCHANGED <<chunkVars, valVars, fuzz, dedupVars, phase, pipeVars, merged_data, input_json,
                   excluded_message_ids, filtered_messages, batch_entry, batch_files,
                   reprocess_data, requests>>

\* one iteration of the loop of main in process_json.py
CliMainIteration == batch_entry = "cli" /\ UnguardedIteration

\* one iteration of the loop of JSONContextExtractor.main
ExtractorMainIteration == batch_entry = "extractor_main" /\ UnguardedIteration

\* one iteration of the loop of process_all_input_jsons: the body is inside
\* try/except Exception, which records the error and goes on
EndpointIteration ==
    /\ batch_entry = "endpoint"
    /\ batch_status = "running"
    /\ batch_idx <= Len(batch_files)
    /\ batch_done' = batch_done \cup {batch_idx}
    /\ batch_idx' = batch_idx + 1
    /\ UNCHANGED <<chunkVars, valVars, fuzz, dedupVars, phase, pipeVars, merged_data, input_json,
                   excluded_message_ids, filtered_messages, batch_entry, batch_files, batch_status, reprocess_data, requests>>

\* the loop is over: the batch returns
BatchReturn ==
    /\ batch_status = "running"
    /\ batch_idx > Len(batch_files)
    /\ batch_status' = "completed"
    /\ UNCHANGED <<chunkVars, valVars, fuzz, dedupVars, phase, pipeVars, merged_data, input_json,
                   excluded_message_ids, filtered_messages, batch_entry, batch_files, batch_idx,
                   batch_done, reprocess_data, requests>>

NextBatch ==
    \/ CliMainIteration
    \/ ExtractorMainIteration
    \/ EndpointIteration
    \/ BatchReturn

SpecBatch == InitBatch /\ [][NextBatch]_vars

\* C17: in each of the three batch loops, a file that is missing, that does
\* not load or on which process_json raises does not stop the batch: no
\* error leaves the loop, and when the batch ends the loop has made its
\* iteration on every file of the list.
C17_FileErrorDoesNotStopBatch ==
    /\ batch_status # "aborted"
    /\ batch_status = "completed" => batch_done = 1..Len(batch_files)


----------------------------------------------------------------------------
(* Specification SpecDedupScope: the merge step and Tier B applied to the   *)
(* same bounded candidates of several types with similar values             *)

ScopeValues == {DV_a, DV_A, DV_b}

ScopePool ==
    {D_addr_a, D_addr_b, D_name_A, D_name_b, D_email_a, D_email_A, D_email_b, D_phone_a, D_phone_b}

InitDedupScope ==
    /\ fuzz \in FuzzTables(ScopeValues)
    /\ \E l1 \in SeqsUpTo(ScopePool, MaxDedupNodes), l3 \in SeqsUpTo({D_name_b}, 1) :
          extracted_data = <<[k |-> "Layer1", v |-> l1], [k |-> "Layer3", v |-> l3]>>
    /\ deduplicated_data = <<>>
    /\ dedup_again = <<>>
    /\ llm_response = [kind |-> "api_error"]
    /\ tier = "none"
    /\ phase = "input"
    /\ ChunkIdle
    /\ ValIdle
    /\ PipeIdle
    /\ MergeIdle
    /\ ReprocessFilterIdle
    /\ BatchIdle
    /\ ReprocessDedupIdle
    /\ RequestsIdle

\* the candidates of the layer in the input (none when the layer is absent)
InputOf(layer) == DictGetOr(extracted_data, layer, <<>>)

\* merge_extracted_data on the candidates as the result of a single chunk
CallMergeExtracted ==
    /\ merged_data = <<>>
    /\ merged_data' = MergeExtractedData(<<extracted_data>>)
    /\ UNCHANGED <<chunkVars, valVars, fuzz, dedupVars, phase, pipeVars, input_json,
                   excluded_message_ids, filtered_messages, batch_entry, batch_files, batch_idx,
                   batch_done, batch_status, reprocess_data, requests>>

\* the end of reprocess_rejected_fact on the accumulated candidates of the
\* target layer: _deduplicate_facts when there are any
CallReprocessDedup ==
    /\ reprocess_data = <<>>
    /\ InputOf("Layer1") # <<>>
    /\ reprocess_data' = <<[k |-> "Layer1", v |-> DeduplicateFacts(InputOf("Layer1"))]>>
    /\ UNCHANGED <<chunkVars, valVars, fuzz, dedupVars, phase, pipeVars, merged_data, input_json,
                   excluded_message_ids, filtered_messages, batch_entry, batch_files, batch_idx,
                   batch_done, batch_status, requests>>

\* the deduplication of a run that ends in Tier B: apply_fallback_deduplication
\* on what merge_extracted_data returned
CallTierBOnMerged ==
    /\ merged_data # <<>>
    /\ dedup_again = <<>>
    /\ dedup_again' = ApplyFallbackDeduplication(merged_data)
    /\ UNCHANGED <<auxVars, extracted_data, deduplicated_data, llm_response, tier, fuzz, phase,
                   chunkVars, valVars, pipeVars>>

NextDedupScope == CallTierB \/ CallMergeExtracted \/ CallReprocessDedup \/ CallTierBOnMerged

SpecDedupScope == InitDedupScope /\ [][NextDedupScope]_vars

TypesOf(facts) == {facts[i].detail.type : i \in 1..Len(facts)}

\* outp is what the per-layer deduplication Dedup made of inp, and it kept
\* only candidates of inp, kept every fact_type of inp, and kept of each
\* fact_type what it keeps of the candidates of that type taken alone
TypeScoped(inp, outp, Dedup(_)) ==
    /\ Range(outp) \subseteq Range(inp)
    /\ TypesOf(outp) = TypesOf(inp)
    /\ \A t \in TypesOf(inp) : OfType(outp, t) = Dedup(OfType(inp, t))

\* C18: in the merge step and in Tier B, what is kept of the candidates of
\* one fact_type in one layer depends on the candidates of that fact_type in
\* that layer only: candidates of differing fact_type never remove each
\* other, however similar their values, and every fact_type of a layer's
\* input is still present in the layer's output.
C18_DedupWithinTypeOnly ==
    /\ merged_data # <<>> =>
           \A i \in 1..Len(merged_data) :
               TypeScoped(InputOf(merged_data[i].k), merged_data[i].v, DeduplicateFacts)
    /\ phase = "once" =>
           \A i \in 1..Len(deduplicated_data) :
               TypeScoped(InputOf(deduplicated_data[i].k), deduplicated_data[i].v,
                          DeduplicateFactsEnhanced)

\* both deduplications ran on a layer that holds two candidates of differing
\* fact_type with the same normalised value, both of which were kept, and a
\* same-type duplicate, which was removed
C18_Witness ==
    /\ merged_data # <<>>
    /\ phase = "once"
    /\ LET inp == InputOf("Layer1")
       IN  /\ \E i, j \in 1..Len(inp) :
                  /\ inp[i].detail.type # inp[j].detail.type
                  /\ Normalize(inp[i].detail.value) = Normalize(inp[j].detail.value)
                  /\ {inp[i], inp[j]} \subseteq Range(DictGet(merged_data, "Layer1"))
                  /\ {inp[i], inp[j]} \subseteq Range(DictGet(deduplicated_data, "Layer1"))
           /\ Len(DictGet(merged_data, "Layer1")) < Len(inp)
           /\ Len(DictGet(deduplicated_data, "Layer1")) < Len(inp)


\* the positions in a layer's input of the candidates of fact_type t
PositionsOfType(inp, t) == {i \in 1..Len(inp) : inp[i].detail.type = t}

\* the normalised values of the email candidates of a list
EmailValues(facts) ==
    {Normalize(facts[i].detail.value) : i \in PositionsOfType(facts, "email")}

\* C30: after the merge step followed by Tier B, every normalised value that
\* an email candidate of a layer's input has is still the value of an email
\* candidate of that layer: two emails whose normalised values differ both
\* survive, however similar the addresses are.
C30_DistinctEmailsSurvive ==
    dedup_again # <<>> =>
        \A i \in 1..Len(extracted_data) :
            EmailValues(DictGetOr(dedup_again, extracted_data[i].k, <<>>))
                = EmailValues(extracted_data[i].v)

\* C20: when a layer holds exactly two candidates of a fact_type other than
\* phone_number and email, and the similarity ratio of their normalised
\* values is 85 or more, Tier B keeps exactly one of the two: the one of
\* higher confidence, the first-seen one when the confidences are equal.
C20_RatioAtLeast85IsDuplicate ==
    phase = "once" =>
        \A l \in 1..Len(extracted_data) :
            LET inp == extracted_data[l].v
                outp == deduplicated_data[l].v
            IN  \A t \in TypesOf(inp) \ {"phone_number", "email"} :
                    \A i, j \in PositionsOfType(inp, t) :
                        (/\ i < j
                         /\ PositionsOfType(inp, t) = {i, j}
                         /\ Ratio(Normalize(inp[i].detail.value),
                                  Normalize(inp[j].detail.value)) >= 85)
                        => OfType(outp, t) =
                               <<IF inp[j].confidence > inp[i].confidence THEN inp[j] ELSE inp[i]>>


----------------------------------------------------------------------------
(* Specification SpecFlatten: the flattening of process_json applied to     *)
(* bounded transcripts                                                      *)

InitFlatten ==
    /\ input_json \in Transcripts
    /\ phase = "input"
    /\ ChunkIdle
    /\ ValIdle
    /\ DedupIdle
    /\ FuzzIdle
    /\ PipeIdle
    /\ MergeIdle
    /\ excluded_message_ids = <<>>
    /\ filtered_messages = <<>>
    /\ BatchIdle
    /\ ReprocessDedupIdle
    /\ RequestsIdle

\* the flattening loop of process_json
CallFlatten ==
    /\ phase = "input"
    /\ messages' = Flatten(input_json)
    /\ phase' = "done"
    /\ UNCHANGED <<chunk_size, overlap_size, chunks, chunk_outcome, valVars, fuzz, dedupVars,
                   pipeVars, auxVars>>

NextFlatten == CallFlatten

SpecFlatten == InitFlatten /\ [][NextFlatten]_vars

RECURSIVE SizeBefore(_, _)
\* the number of entries of the first c conversations of a transcript
SizeBefore(input, c) ==
    IF c = 0 THEN 0
    ELSE SizeBefore(input, c - 1) + Len(input[c].user_queries) + Len(input[c].team_replies)

\* message m is the entry, with the sender and the conversation index given,
\* under the source id when the entry has one and the synthetic id otherwise
IsMessageOf(m, entry, sender, conv_idx) ==
    /\ m.sender = sender
    /\ m.conversation_id = conv_idx
    /\ m.message = entry.message
    /\ m.id = IF "message_id" \in DOMAIN entry THEN entry.message_id
              ELSE <<IF sender = "User" THEN "unknown_user_" ELSE "unknown_team_", IdxStr(conv_idx)>>

\* C21: the message sequence of process_json is, conversation by
\* conversation in source order, the user_queries (sender User) and then the
\* team_replies (sender Team) of the conversation, each in source order,
\* nothing dropped or duplicated; a message keeps its source message_id as
\* id, or gets unknown_<sender>_<conversation index> when it has none.
C21_FlattenIsAppendOrder ==
    phase = "done" =>
        /\ Len(messages) = SizeBefore(input_json, Len(input_json))
        /\ \A c \in 1..Len(input_json) :
               LET conv == input_json[c]
                   base == SizeBefore(input_json, c - 1)
               IN  /\ \A j \in 1..Len(conv.user_queries) :
                          IsMessageOf(messages[base + j], conv.user_queries[j], "User", c - 1)
                   /\ \A j \in 1..Len(conv.team_replies) :
                          IsMessageOf(messages[base + Len(conv.user_queries) + j],
                                      conv.team_replies[j], "Team", c - 1)

\* a transcript of two conversations was flattened; its second conversation
\* holds a query with a message_id, a query without one and a reply without
\* one, and the first conversation is not empty
C21_Witness ==
    /\ phase = "done"
    /\ Len(input_json) = 2
    /\ input_json[1].user_queries # <<>>
    /\ input_json[1].team_replies # <<>>
    /\ \E j, k \in 1..Len(input_json[2].user_queries) :
          /\ "message_id" \in DOMAIN input_json[2].user_queries[j]
          /\ "message_id" \notin DOMAIN input_json[2].user_queries[k]
    /\ \E j \in 1..Len(input_json[2].team_replies) :
          "message_id" \notin DOMAIN input_json[2].team_replies[j]


\* C24: the deduplication reprocess_rejected_fact applies to its accumulated
\* candidates of one fact_type gives what Tier B gives on the same list: at
\* most one phone_number (a first-seen one of maximal confidence), emails
\* collapsed only when their normalised values are equal.
C24_ReprocessDedupIsTierB ==
    (reprocess_data # <<>> /\ Cardinality(TypesOf(InputOf("Layer1"))) = 1) =>
        DictGet(reprocess_data, "Layer1") = DeduplicateFactsEnhanced(InputOf("Layer1"))


----------------------------------------------------------------------------
(* Specification SpecConcurrent: process_json requests for one user, without *)
(* force_reprocess, running in separate processes against one enabled Fact   *)
(* Store. A step of a request is one call on the store or on the extraction  *)
(* capability; the marker upsert is one atomic step.                         *)

\* the chunks of the user's transcript
RequestChunks == ChunkMessages(Flatten(InputJson), 2, 1).chunks

\* the user's facts, as every request extracts and deduplicates them
RequestFacts == <<[k |-> "Layer1", v |-> <<N_phone>>], [k |-> "Layer3", v |-> <<N_spouse>>]>>

InitConcurrent ==
    /\ requests = [r \in 1..MaxRequests |-> [pc |-> "check", idx |-> 1]]
    /\ db_enabled = TRUE
    /\ marker = FALSE
    /\ store = <<>>
    /\ phase = "concurrent"
    /\ chunk_size = 2
    /\ overlap_size = 1
    /\ messages = <<>>
    /\ chunks = <<>>
    /\ chunk_outcome = "none"
    /\ ValIdle
    /\ DedupIdle
    /\ FuzzIdle
    /\ pc = "idle"
    /\ cur = NoOp
    /\ prev = NoOp
    /\ runs = 0
    /\ reprocs = 0
    /\ reviews = 0
    /\ chunk_idx = 1
    /\ all_extracted_data = <<>>
    /\ storage_result = NoStorageResult
    /\ returned = NothingReturned
    /\ run_inserts = <<>>
    /\ MergeIdle
    /\ ReprocessFilterIdle
    /\ BatchIdle
    /\ ReprocessDedupIdle

\* everything a step of a request leaves alone besides requests, marker and store
RequestFrame ==
    UNCHANGED <<chunkVars, valVars, fuzz, dedupVars, phase, db_enabled, pc, cur, prev, runs,
                reprocs, reviews, chunk_idx, all_extracted_data, storage_result, returned,
                run_inserts, merged_data, input_json, excluded_message_ids, filtered_messages,
                batch_entry, batch_files, batch_idx, batch_done, batch_status, reprocess_data>>

\* the marker check of request r: is_file_processed, then the skip or the
\* flattening and chunking
CheckMarker(r) ==
    /\ requests[r].pc = "check"
    /\ \E processed \in IsFileProcessedAnswers :
          requests' = [requests EXCEPT ![r] =
                          IF processed THEN [pc |-> "skipped", idx |-> 1]
                          ELSE [pc |-> "extract", idx |-> 1]]
    /\ UNCHANGED <<marker, store>>
    /\ RequestFrame

\* the extraction call of request r for its next chunk; after the last one
\* the merge and the deduplication call
RequestExtract(r) ==
    /\ requests[r].pc = "extract"
    /\ requests' = [requests EXCEPT ![r] =
                       IF requests[r].idx < Len(RequestChunks)
                       THEN [pc |-> "extract", idx |-> requests[r].idx + 1]
                       ELSE [pc |-> "store", idx |-> 1]]
    /\ UNCHANGED <<marker, store>>
    /\ RequestFrame

\* one store_memory_node call of the store loop of request r
RequestStore(r) ==
    /\ requests[r].pc = "store"
    /\ store' = Append(store, RowsOf(RequestFacts)[requests[r].idx])
    /\ requests' = [requests EXCEPT ![r] =
                       IF requests[r].idx < Len(RowsOf(RequestFacts))
                       THEN [pc |-> "store", idx |-> requests[r].idx + 1]
                       ELSE [pc |-> "mark", idx |-> 1]]
    /\ UNCHANGED marker
    /\ RequestFrame

\* mark_file_processed of request r: the atomic upsert, which may fail
RequestMark(r) ==
    /\ requests[r].pc = "mark"
    /\ \E ok \in BOOLEAN : marker' = (marker \/ ok)
    /\ requests' = [requests EXCEPT ![r] = [pc |-> "returned", idx |-> 1]]
    /\ UNCHANGED store
    /\ RequestFrame

NextConcurrent ==
    \E r \in 1..MaxRequests :
        \/ CheckMarker(r)
        \/ RequestExtract(r)
        \/ RequestStore(r)
        \/ RequestMark(r)

SpecConcurrent == InitConcurrent /\ [][NextConcurrent]_vars

\* the requests that passed the marker check
PassedCheck == {r \in 1..MaxRequests : requests[r].pc \notin {"check", "skipped"}}

\* C25: of the concurrent requests for one user without force_reprocess, at
\* most one passes the marker check, performs extraction and writes facts:
\* the user's facts are never inserted by two requests.
C25_AtMostOneRequestWorks ==
    /\ Cardinality(PassedCheck) <= 1
    /\ \A i, j \in 1..Len(store) : store[i] = store[j] => i = j


----------------------------------------------------------------------------
(* Specification SpecReview: store_memory_node, approve_update,             *)
(* reject_update and mark_reprocessing_complete called in any order on the  *)
(* rows of memory_nodes                                                     *)

InitReview ==
    /\ db_enabled = TRUE
    /\ store = <<>>
    /\ reviews = 0
    /\ phase = "review"
    /\ chunk_size = 2
    /\ overlap_size = 1
    /\ messages = <<>>
    /\ chunks = <<>>
    /\ chunk_outcome = "none"
    /\ ValIdle
    /\ DedupIdle
    /\ FuzzIdle
    /\ marker = FALSE
    /\ pc = "idle"
    /\ cur = NoOp
    /\ prev = NoOp
    /\ runs = 0
    /\ reprocs = 0
    /\ chunk_idx = 1
    /\ all_extracted_data = <<>>
    /\ storage_result = NoStorageResult
    /\ returned = NothingReturned
    /\ run_inserts = <<>>
    /\ MergeIdle
    /\ ReprocessFilterIdle
    /\ BatchIdle
    /\ ReprocessDedupIdle
    /\ RequestsIdle

\* everything a call on memory_nodes leaves alone besides store and reviews
ReviewFrame ==
    UNCHANGED <<chunkVars, valVars, fuzz, dedupVars, phase, db_enabled, marker, pc, cur, prev,
                runs, reprocs, chunk_idx, all_extracted_data, storage_result, returned,
                run_inserts, auxVars>>

\* SupabaseManager.store_memory_node: the insert of a pending row
StoreMemoryNode(layer, node) ==
    /\ Len(store) < MaxRows
    /\ store' = Append(store, MemoryNode(layer, node, "initial", 0))
    /\ UNCHANGED reviews
    /\ ReviewFrame

\* SupabaseManager.approve_update: the update has no condition but the id
ReviewApprove(id) ==
    /\ reviews < MaxReviewCalls
    /\ reviews' = reviews + 1
    /\ store' = [store EXCEPT ![id].status = "approved"]
    /\ ReviewFrame

\* SupabaseManager.reject_update
ReviewReject(id) ==
    /\ reviews < MaxReviewCalls
    /\ reviews' = reviews + 1
    /\ store' = [store EXCEPT ![id].status = "rejected", ![id].needs_reprocess = TRUE]
    /\ ReviewFrame

\* SupabaseManager.mark_reprocessing_complete
MarkReprocessingComplete(id) ==
    /\ reviews < MaxReviewCalls
    /\ reviews' = reviews + 1
    /\ store' = [store EXCEPT ![id].needs_reprocess = FALSE]
    /\ ReviewFrame

NextReview ==
    \/ \E node \in {N_phone, N_spouse} : StoreMemoryNode("Layer1", node)
    \/ \E id \in 1..Len(store) : ReviewApprove(id)
    \/ \E id \in 1..Len(store) : ReviewReject(id)
    \/ \E id \in 1..Len(store) : MarkReprocessingComplete(id)

SpecReview == InitReview /\ [][NextReview]_vars

\* C27: in every state of the Fact Store a record whose needs_reprocess flag
\* is set has status rejected, and a step that makes a record approved
\* finds it pending.
C27_FlagOnlyOnRejected ==
    /\ [](\A i \in 1..Len(store) : store[i].needs_reprocess => store[i].status = "rejected")
    /\ [][\A i \in 1..Len(store) :
              (store'[i].status = "approved" /\ store[i].status # "approved")
                  => store[i].status = "pending"]_vars

====
